---- MODULE Spec2Model ----
(***************************************************************************)
(* A model of LibUThread: user threads multiplexed on one OS thread.       *)
(*                                                                         *)
(* One stack executes at a time (cpu).  A library call is cut into the     *)
(* segments between the points where control can leave it: a context       *)
(* switch (swapcontext in scheduler_schedule) or a delivery of SIGALRM     *)
(* (possible exactly where the signal mask leaves it unblocked).  Each     *)
(* stack is a sequence of frames; the top frame names the code that runs   *)
(* next on that stack.  The C functions are operators from a machine       *)
(* state (a record of all variables) to a machine state.                   *)
(***************************************************************************)
EXTENDS Integers, Sequences, FiniteSets, TLC

VARIABLES
    tcb,                    \* struct uthread_internal, per thread (0 = idle_thread)
    ctx,                    \* uthread_internal.context: the saved ucontext_t
    rq,                     \* g_scheduler.ops and the policy's run queues:
                            \* g_rr_state (head, tail, count),
                            \* g_priority_state (queues, bitmap, pcount) and
                            \* g_cfs_state (rb_root, rb_leftmost,
                            \* min_vruntime, cfs_count)
    wq,                     \* struct wait_queue of each primitive
    current,                \* g_scheduler.current
    in_scheduler,           \* g_scheduler.in_scheduler
    s_preemption_disabled,  \* timer.c depth counter
    s_preempt_pending,      \* timer.c deferred-tick flag
    cpu,                    \* the stack the processor is executing on
    mask,                   \* SIGALRM blocked in the executing context
    stk,                    \* the frames of each stack
    crashed,                \* the process faulted, aborted or hung in a loop
    mutex,                  \* uthread_mutex_t
    cond,                   \* uthread_cond_t
    sem,                    \* uthread_sem_t
    rw,                     \* uthread_rwlock_t
    clock,                  \* the monotonic clock has reached the timed waits' deadline
    prog,                   \* the start routine of each thread, as a list of calls
    counter,                \* a shared integer of the user program
    g_signal_received,      \* the predicate the condition variable's waiters test
    tmp,                    \* a local of each start routine
    rc,                     \* the value the last library call returned, per stack
    buf,                    \* the globals of producer_consumer.c
    g_scheduler,            \* g_scheduler.initialized, all_threads, thread_count
                            \* and next_tid
    obs                     \* what the user program observed (results of calls)

vars == <<tcb, ctx, rq, wq, current, in_scheduler, s_preemption_disabled,
          s_preempt_pending, cpu, mask, stk, crashed, mutex, cond, sem, rw,
          clock, prog, counter, g_signal_received, tmp, rc, buf, g_scheduler,
          obs>>

(***************************************************************************)
(* Bounds of the model.                                                    *)
(***************************************************************************)
MaxThreads == 3
Rounds == 2

NULL == -1
Idle == 0
Main == 1
Threads == 1..MaxThreads
Workers == 2..MaxThreads
Tcbs == 0..MaxThreads

NullQ == "NULL"
MutexQ == "mutex.waiters"
CondQ == "cond.waiters"
SemQ == "sem.waiters"
ReadQ == "rwlock.read_waiters"
WriteQ == "rwlock.write_waiters"
NotFullQ == "buffer_not_full.waiters"
Queues == {MutexQ, CondQ, SemQ, ReadQ, WriteQ, NotFullQ}

St ==
    [tcb |-> tcb, ctx |-> ctx, rq |-> rq, wq |-> wq, current |-> current,
     in_scheduler |-> in_scheduler,
     s_preemption_disabled |-> s_preemption_disabled,
     s_preempt_pending |-> s_preempt_pending, cpu |-> cpu, mask |-> mask,
     stk |-> stk, crashed |-> crashed, mutex |-> mutex, cond |-> cond,
     sem |-> sem, rw |-> rw, clock |-> clock, counter |-> counter,
     g_signal_received |-> g_signal_received, tmp |-> tmp, rc |-> rc,
     buf |-> buf, g_scheduler |-> g_scheduler, obs |-> obs]

Commit(s) ==
    \E r \in {s} :
    /\ tcb' = r.tcb
    /\ ctx' = r.ctx
    /\ rq' = r.rq
    /\ wq' = r.wq
    /\ current' = r.current
    /\ in_scheduler' = r.in_scheduler
    /\ s_preemption_disabled' = r.s_preemption_disabled
    /\ s_preempt_pending' = r.s_preempt_pending
    /\ cpu' = r.cpu
    /\ mask' = r.mask
    /\ stk' = r.stk
    /\ crashed' = r.crashed
    /\ mutex' = r.mutex
    /\ cond' = r.cond
    /\ sem' = r.sem
    /\ rw' = r.rw
    /\ clock' = r.clock
    /\ counter' = r.counter
    /\ g_signal_received' = r.g_signal_received
    /\ tmp' = r.tmp
    /\ rc' = r.rc
    /\ buf' = r.buf
    /\ g_scheduler' = r.g_scheduler
    /\ obs' = r.obs
    /\ prog' = prog

(***************************************************************************)
(* Frames.                                                                 *)
(***************************************************************************)
\* The({e : v \in {a}}) is e with v bound to the value of a, evaluated once:
\* the C functions below take the machine state by value.  Where bindings
\* are nested, the outermost one (the last line) is made first.
The(S) == CHOOSE x \in S : TRUE

Fr(l, a, b) == [l |-> l, a |-> a, b |-> b]

TopOf(s_) ==
    The({
    (s.stk[s.cpu][Len(s.stk[s.cpu])])
    : s \in {s_}})

Push(s_, f) ==
    The({
    ([s EXCEPT !.stk[s.cpu] = Append(@, f)])
    : s \in {s_}})

Pop(s_) ==
    The({
    ([s EXCEPT !.stk[s.cpu] = SubSeq(@, 1, Len(@) - 1)])
    : s \in {s_}})

SetTop(s_, f) ==
    The({
    ([s EXCEPT !.stk[s.cpu][Len(s.stk[s.cpu])] = f])
    : s \in {s_}})

Top == TopOf(St)

(***************************************************************************)
(* Wait queues (scheduler.c).                                              *)
(***************************************************************************)
wait_queue_add(s_, q, t) ==
    The({
       (IF q = NullQ \/ t = NULL THEN s
        ELSE LET tail == s.wq[q].tail
                 s1 == [s EXCEPT !.tcb[t].next = NULL, !.tcb[t].prev = tail]
                 s2 == IF tail # NULL THEN [s1 EXCEPT !.tcb[tail].next = t]
                                      ELSE [s1 EXCEPT !.wq[q].head = t]
             IN  [s2 EXCEPT !.wq[q].tail = t, !.wq[q].count = @ + 1,
                            !.tcb[t].blocked_queue = q])
       : s \in {s_}})

wait_queue_remove(s_, q) ==
    The({
       (IF q = NullQ THEN s
        ELSE IF s.wq[q].head = NULL THEN s
        ELSE LET t == s.wq[q].head
                 h == s.tcb[t].next
                 s1 == [s EXCEPT !.wq[q].head = h]
                 s2 == IF h # NULL THEN [s1 EXCEPT !.tcb[h].prev = NULL]
                                   ELSE [s1 EXCEPT !.wq[q].tail = NULL]
             IN  [s2 EXCEPT !.tcb[t].next = NULL, !.tcb[t].prev = NULL,
                            !.tcb[t].blocked_queue = NullQ, !.wq[q].count = @ - 1])
       : s \in {s_}})

wait_queue_remove_specific(s_, q, t) ==
    The({
       (IF q = NullQ \/ t = NULL THEN s
        ELSE IF s.tcb[t].blocked_queue # q THEN s
        ELSE LET p == s.tcb[t].prev
                 s1 == IF p # NULL THEN [s EXCEPT !.tcb[p].next = s.tcb[t].next]
                                   ELSE [s EXCEPT !.wq[q].head = s.tcb[t].next]
                 n == s1.tcb[t].next
                 s2 == IF n # NULL THEN [s1 EXCEPT !.tcb[n].prev = s1.tcb[t].prev]
                                   ELSE [s1 EXCEPT !.wq[q].tail = s1.tcb[t].prev]
             IN  [s2 EXCEPT !.tcb[t].next = NULL, !.tcb[t].prev = NULL,
                            !.tcb[t].blocked_queue = NullQ, !.wq[q].count = @ - 1])
       : s \in {s_}})

wait_queue_empty(s_, q) ==
    The({
    (q = NullQ \/ s.wq[q].head = NULL)
    : s \in {s_}})

(***************************************************************************)
(* Round-robin run queue (sched_rr.c).  timeslice_remaining is kept as     *)
(* 0 (exhausted) or 1 (some of the slice is left).                         *)
(***************************************************************************)
rr_enqueue(s_, t) ==
    The({
       (IF t = NULL THEN s
        ELSE LET tail == s.rq.tail
                 s1 == [s EXCEPT !.tcb[t].next = NULL, !.tcb[t].prev = tail]
                 s2 == IF tail # NULL THEN [s1 EXCEPT !.tcb[tail].next = t]
                                      ELSE [s1 EXCEPT !.rq.head = t]
             IN  [s2 EXCEPT !.rq.tail = t, !.rq.count = @ + 1,
                            !.tcb[t].timeslice_remaining = 1])
       : s \in {s_}})

rr_dequeue(s_) ==
    The({
       (IF s.rq.head = NULL THEN s
        ELSE LET t == s.rq.head
                 h == s.tcb[t].next
                 s1 == [s EXCEPT !.rq.head = h]
                 s2 == IF h # NULL THEN [s1 EXCEPT !.tcb[h].prev = NULL]
                                   ELSE [s1 EXCEPT !.rq.tail = NULL]
             IN  [s2 EXCEPT !.tcb[t].next = NULL, !.tcb[t].prev = NULL,
                            !.rq.count = @ - 1])
       : s \in {s_}})

\* the search loop of rr_remove: "yes", "no", or "loops" on a cyclic list
RECURSIVE rr_found(_, _, _, _)
rr_found(s_, t, thread, fuel) ==
    The({
       (IF t = NULL THEN "no"
        ELSE IF t = thread THEN "yes"
        ELSE IF fuel = 0 THEN "loops"
        ELSE rr_found(s, s.tcb[t].next, thread, fuel - 1))
       : s \in {s_}})

rr_remove(s_, t) ==
    The({
       (IF t = NULL THEN s
        ELSE IF rr_found(s, s.rq.head, t, MaxThreads + 1) = "loops"
        THEN [s EXCEPT !.crashed = TRUE]
        ELSE IF rr_found(s, s.rq.head, t, MaxThreads + 1) = "no" THEN s
        ELSE LET p == s.tcb[t].prev
                 s1 == IF p # NULL THEN [s EXCEPT !.tcb[p].next = s.tcb[t].next]
                                   ELSE [s EXCEPT !.rq.head = s.tcb[t].next]
                 n == s1.tcb[t].next
                 s2 == IF n # NULL THEN [s1 EXCEPT !.tcb[n].prev = s1.tcb[t].prev]
                                   ELSE [s1 EXCEPT !.rq.tail = s1.tcb[t].prev]
             IN  [s2 EXCEPT !.tcb[t].next = NULL, !.tcb[t].prev = NULL,
                            !.rq.count = @ - 1])
       : s \in {s_}})

rr_on_tick(s_, t, elapsed_ge_remaining) ==
    The({
       (IF t = NULL THEN s
        ELSE IF elapsed_ge_remaining THEN [s EXCEPT !.tcb[t].timeslice_remaining = 0]
        ELSE s)
       : s \in {s_}})

rr_should_preempt(s_, t) ==
    The({
       (IF t = NULL THEN FALSE
        ELSE s.tcb[t].timeslice_remaining = 0 /\ s.rq.count > 0)
       : s \in {s_}})

(***************************************************************************)
(* Priority run queues (sched_priority.c): one list per priority level,    *)
(* linked through the same next/prev fields, and a bitmap of the levels    *)
(* whose list is not empty, kept as the set of its set bits.  The walks    *)
(* over a list stop the model (crashed) when the list is cyclic, where the *)
(* C loop would not return.                                                *)
(***************************************************************************)
\* uthread.h:28
UTHREAD_MAX_THREADS == 1024

UTHREAD_PRIORITY_LEVELS == 32
UTHREAD_PRIORITY_DEFAULT == 16
Levels == 0..(UTHREAD_PRIORITY_LEVELS - 1)

\* a scan that returns the lowest set bit
find_lowest_priority(s_) ==
    The({
       (IF s.rq.bitmap = {} THEN -1
        ELSE CHOOSE i \in s.rq.bitmap : \A j \in s.rq.bitmap : i <= j)
       : s \in {s_}})

find_highest_priority(s_) ==
    The({
       (IF s.rq.bitmap = {} THEN -1
        ELSE CHOOSE i \in s.rq.bitmap : \A j \in s.rq.bitmap : j <= i)
       : s \in {s_}})

\* the last thread of the list that starts at t, or NULL on a cyclic list
RECURSIVE priority_tail(_, _, _)
priority_tail(s_, t, fuel) ==
    The({
       (IF s.tcb[t].next = NULL THEN t
        ELSE IF fuel = 0 THEN NULL
        ELSE priority_tail(s, s.tcb[t].next, fuel - 1))
       : s \in {s_}})

add_to_priority_queue(s_, thread, priority) ==
    The({
       (LET s1 == [s EXCEPT !.tcb[thread].next = NULL]
            head == s1.rq.queues[priority]
        IN  IF head = NULL
            THEN [s1 EXCEPT !.rq.queues[priority] = thread,
                            !.tcb[thread].prev = NULL,
                            !.rq.bitmap = @ \cup {priority}]
            ELSE LET tail == priority_tail(s1, head, MaxThreads + 1) IN
                 IF tail = NULL THEN [s1 EXCEPT !.crashed = TRUE]
                 ELSE [s1 EXCEPT !.tcb[tail].next = thread,
                                 !.tcb[thread].prev = tail])
       : s \in {s_}})

remove_from_priority_queue(s_, thread, priority) ==
    The({
       (LET p == s.tcb[thread].prev
            n == s.tcb[thread].next
            s1 == IF p # NULL THEN [s EXCEPT !.tcb[p].next = n]
                              ELSE [s EXCEPT !.rq.queues[priority] = n]
            s2 == IF n # NULL THEN [s1 EXCEPT !.tcb[n].prev = p] ELSE s1
            s3 == [s2 EXCEPT !.tcb[thread].next = NULL, !.tcb[thread].prev = NULL]
        IN  IF s3.rq.queues[priority] = NULL
            THEN [s3 EXCEPT !.rq.bitmap = @ \ {priority}]
            ELSE s3)
       : s \in {s_}})

\* thread->priority clamped to 0..31
priority_clamp(priority) ==
    IF priority < 0 THEN 0
    ELSE IF priority >= UTHREAD_PRIORITY_LEVELS THEN UTHREAD_PRIORITY_LEVELS - 1
    ELSE priority

priority_enqueue(s_, thread) ==
    The({
       (IF thread = NULL THEN s
        ELSE LET s1 == add_to_priority_queue(s, thread,
                           priority_clamp(s.tcb[thread].priority))
             IN  [s1 EXCEPT !.rq.pcount = @ + 1,
                            !.tcb[thread].timeslice_remaining = 1])
       : s \in {s_}})

priority_dequeue(s_) ==
    The({
       (LET highest == find_highest_priority(s) IN
        IF highest < 0 THEN s
        ELSE LET thread == s.rq.queues[highest] IN
             IF thread = NULL THEN s
             ELSE [remove_from_priority_queue(s, thread, highest)
                       EXCEPT !.rq.pcount = @ - 1])
       : s \in {s_}})

\* the level whose list priority_remove finds thread in: -1 when in none,
\* -2 when a search does not end
priority_search(s_, thread) ==
    The({
       (LET own == priority_clamp(s.tcb[thread].priority)
            found(i) == rr_found(s, s.rq.queues[i], thread, MaxThreads + 1)
            before(i) == {j \in Levels : j < i}
        IN  IF found(own) = "yes" THEN own
            ELSE IF found(own) = "loops" THEN -2
            ELSE IF \E i \in Levels : found(i) = "loops"
                       /\ \A j \in before(i) : found(j) = "no" THEN -2
            ELSE IF \E i \in Levels : found(i) = "yes"
                 THEN CHOOSE i \in Levels :
                          found(i) = "yes" /\ \A j \in before(i) : found(j) = "no"
            ELSE -1)
       : s \in {s_}})

priority_remove(s_, thread) ==
    The({
       (IF thread = NULL THEN s
        ELSE LET i == priority_search(s, thread) IN
             IF i = -2 THEN [s EXCEPT !.crashed = TRUE]
             ELSE IF i = -1 THEN s
             ELSE [remove_from_priority_queue(s, thread, i)
                       EXCEPT !.rq.pcount = @ - 1])
       : s \in {s_}})

priority_on_tick(s_, thread, elapsed_ge_remaining) ==
    The({
       (IF thread = NULL THEN s
        ELSE IF elapsed_ge_remaining
        THEN [s EXCEPT !.tcb[thread].timeslice_remaining = 0]
        ELSE s)
       : s \in {s_}})

priority_should_preempt(s_, cur) ==
    The({
       (IF cur = NULL THEN FALSE
        ELSE \/ find_highest_priority(s) > s.tcb[cur].priority
             \/ /\ s.tcb[cur].timeslice_remaining = 0
                /\ s.rq.queues[s.tcb[cur].priority] # NULL)
       : s \in {s_}})

(***************************************************************************)
(* CFS run queue (sched_cfs.c): a red-black tree of TCBs keyed by          *)
(* vruntime, linked through rb_left, rb_right and rb_parent, with a cached *)
(* leftmost node.  g_cfs_state is kept in rq (rb_root, rb_leftmost,        *)
(* min_vruntime, cfs_count).  A uint64_t is four 16-bit limbs, most        *)
(* significant first, so that its arithmetic is modulo 2^64.  A walk that  *)
(* would not return on a cyclic tree, or a dereference of a null pointer,  *)
(* stops the model (crashed).                                              *)
(***************************************************************************)
\* internal.h:226-227
RB_RED == 0
RB_BLACK == 1

\* internal.h:31-37
CFS_TARGET_LATENCY_NS == 20000000
CFS_MIN_GRANULARITY_NS == 1000000
CFS_NICE_0_WEIGHT == 1024

\* the nodes a tree walk can visit before it must have met one twice
MaxNodes == 5

U64(n) == <<0, 0, n \div 65536, n % 65536>>

U64Lt(a, b) == \E i \in 1..4 : a[i] < b[i] /\ \A j \in 1..(i - 1) : a[j] = b[j]

U64Add(a, b) ==
    LET s4 == a[4] + b[4]
        s3 == a[3] + b[3] + (s4 \div 65536)
        s2 == a[2] + b[2] + (s3 \div 65536)
        s1 == a[1] + b[1] + (s2 \div 65536)
    IN  <<s1 % 65536, s2 % 65536, s3 % 65536, s4 % 65536>>

\* a - b modulo 2^64; the quotient of a negative limb difference is the borrow
U64Sub(a, b) ==
    LET d4 == a[4] - b[4]
        d3 == a[3] - b[3] + (d4 \div 65536)
        d2 == a[2] - b[2] + (d3 \div 65536)
        d1 == a[1] - b[1] + (d2 \div 65536)
    IN  <<d1 % 65536, d2 % 65536, d3 % 65536, d4 % 65536>>

\* a * k modulo 2^64 and a / k, for 0 < k < 2^15
U64Mul(a, k) ==
    LET p4 == a[4] * k
        p3 == a[3] * k + (p4 \div 65536)
        p2 == a[2] * k + (p3 \div 65536)
        p1 == a[1] * k + (p2 \div 65536)
    IN  <<p1 % 65536, p2 % 65536, p3 % 65536, p4 % 65536>>

U64Div(a, k) ==
    LET n1 == a[1]
        n2 == (n1 % k) * 65536 + a[2]
        n3 == (n2 % k) * 65536 + a[3]
        n4 == (n3 % k) * 65536 + a[4]
    IN  <<n1 \div k, n2 \div k, n3 \div k, n4 \div k>>

\* y != NULL && y->rb_color == RB_RED
IsRed(s, n) == n # NULL /\ s.tcb[n].rb_color = RB_RED

\* n == NULL || n->rb_color == RB_BLACK
IsBlack(s, n) == n = NULL \/ s.tcb[n].rb_color = RB_BLACK

Fault(s) == [s EXCEPT !.crashed = TRUE]

\* sched_cfs.c:26-47
rb_rotate_left(s_, x) ==
    The({
       (IF x = NULL THEN Fault(s)
        ELSE IF s.tcb[x].rb_right = NULL THEN Fault(s)
        ELSE The({
            (The({
            (The({
            (The({
            (The({
            (The({
            (The({
            (The({
                ([s5 EXCEPT !.tcb[x].rb_parent = y])
                : s5 \in {[s4 EXCEPT !.tcb[y].rb_left = x]}}))
            : s4 \in {
                 IF p = NULL THEN [s3 EXCEPT !.rq.rb_root = y]
                 ELSE IF x = s3.tcb[p].rb_left
                 THEN [s3 EXCEPT !.tcb[p].rb_left = y]
                 ELSE [s3 EXCEPT !.tcb[p].rb_right = y]}}))
            : s3 \in {[s2 EXCEPT !.tcb[y].rb_parent = p]}}))
            : p \in {s2.tcb[x].rb_parent}}))
            : s2 \in {IF yl # NULL THEN [s1 EXCEPT !.tcb[yl].rb_parent = x] ELSE s1}}))
            : s1 \in {[s EXCEPT !.tcb[x].rb_right = yl]}}))
            : yl \in {s.tcb[y].rb_left}}))
            : y \in {s.tcb[x].rb_right}}))
       : s \in {s_}})

\* sched_cfs.c:49-70
rb_rotate_right(s_, y) ==
    The({
       (IF y = NULL THEN Fault(s)
        ELSE IF s.tcb[y].rb_left = NULL THEN Fault(s)
        ELSE The({
            (The({
            (The({
            (The({
            (The({
            (The({
            (The({
            (The({
                ([s5 EXCEPT !.tcb[y].rb_parent = x])
                : s5 \in {[s4 EXCEPT !.tcb[x].rb_right = y]}}))
            : s4 \in {
                 IF p = NULL THEN [s3 EXCEPT !.rq.rb_root = x]
                 ELSE IF y = s3.tcb[p].rb_left
                 THEN [s3 EXCEPT !.tcb[p].rb_left = x]
                 ELSE [s3 EXCEPT !.tcb[p].rb_right = x]}}))
            : s3 \in {[s2 EXCEPT !.tcb[x].rb_parent = p]}}))
            : p \in {s2.tcb[y].rb_parent}}))
            : s2 \in {IF xr # NULL THEN [s1 EXCEPT !.tcb[xr].rb_parent = y] ELSE s1}}))
            : s1 \in {[s EXCEPT !.tcb[y].rb_left = xr]}}))
            : xr \in {s.tcb[x].rb_right}}))
            : x \in {s.tcb[y].rb_left}}))
       : s \in {s_}})

\* rb_rotate_left(n) when left, rb_rotate_right(n) otherwise
rb_rotate(s_, n, left) ==
    The({
       (IF left THEN rb_rotate_left(s, n) ELSE rb_rotate_right(s, n))
       : s \in {s_}})

\* the else branches of rb_insert_fixup (sched_cfs.c:82-89, 98-105): left is
\* TRUE when z's parent is a left child
rb_insert_rotate(s_, z, left) ==
    The({
       (The({
       (The({
       (The({
       (The({
           (IF s1.crashed \/ p1 = NULL THEN Fault(s1)
            ELSE IF s1.tcb[p1].rb_parent = NULL THEN Fault(s1)
            ELSE The({
                (The({
                    (rb_rotate([s2 EXCEPT !.tcb[g1].rb_color = RB_RED],
                               g1, ~left))
                    : s2 \in {[s1 EXCEPT !.tcb[p1].rb_color = RB_BLACK]}}))
                : g1 \in {s1.tcb[p1].rb_parent}}))
           : p1 \in {s1.tcb[IF inner THEN p ELSE z].rb_parent}}))
       : s1 \in {IF inner THEN rb_rotate(s, p, left) ELSE s}}))
       : inner \in {z = (IF left THEN s.tcb[p].rb_right ELSE s.tcb[p].rb_left)}}))
       : p \in {s.tcb[z].rb_parent}}))
       : s \in {s_}})

\* the node rb_insert_fixup goes on with after one round of its loop
rb_insert_next(s, z, left) ==
    LET p == s.tcb[z].rb_parent
        g == s.tcb[p].rb_parent
        y == IF left THEN s.tcb[g].rb_right ELSE s.tcb[g].rb_left
    IN  IF IsRed(s, y) THEN g
        ELSE IF z = (IF left THEN s.tcb[p].rb_right ELSE s.tcb[p].rb_left) THEN p
        ELSE z

\* one round of the loop of rb_insert_fixup (sched_cfs.c:74-108), for a z
\* with a red parent p that has a parent g
rb_insert_round(s_, z, p, g) ==
    The({
       (The({
       (The({
           (IF IsRed(s, y)
            THEN The({
                (The({
                    ([s2 EXCEPT !.tcb[g].rb_color = RB_RED])
                    : s2 \in {[s1 EXCEPT !.tcb[y].rb_color = RB_BLACK]}}))
                : s1 \in {[s EXCEPT !.tcb[p].rb_color = RB_BLACK]}})
            ELSE rb_insert_rotate(s, z, left))
           : y \in {IF left THEN s.tcb[g].rb_right ELSE s.tcb[g].rb_left}}))
       : left \in {p = s.tcb[g].rb_left}}))
       : s \in {s_}})

\* sched_cfs.c:72-111
RECURSIVE rb_insert_fixup(_, _, _)
rb_insert_fixup(s_, z, fuel) ==
    The({
       (The({
           (IF s.crashed THEN s
            ELSE IF p = NULL \/ s.tcb[p].rb_color # RB_RED
            THEN IF s.rq.rb_root = NULL THEN Fault(s)
                 ELSE [s EXCEPT !.tcb[s.rq.rb_root].rb_color = RB_BLACK]
            ELSE IF fuel = 0 \/ s.tcb[p].rb_parent = NULL THEN Fault(s)
            ELSE rb_insert_fixup(
                     rb_insert_round(s, z, p, s.tcb[p].rb_parent),
                     rb_insert_next(s, z, p = s.tcb[s.tcb[p].rb_parent].rb_left),
                     fuel - 1))
           : p \in {s.tcb[z].rb_parent}}))
       : s \in {s_}})

\* the search loop of rb_insert (sched_cfs.c:118-126): the parent found, and
\* whether the walk came to an end
RECURSIVE rb_insert_point(_, _, _, _, _)
rb_insert_point(s_, thread, x, y, fuel) ==
    The({
       (IF x = NULL THEN [y |-> y, ends |-> TRUE]
        ELSE IF fuel = 0 THEN [y |-> y, ends |-> FALSE]
        ELSE rb_insert_point(s, thread,
                             IF U64Lt(s.tcb[thread].vruntime, s.tcb[x].vruntime)
                             THEN s.tcb[x].rb_left ELSE s.tcb[x].rb_right,
                             x, fuel - 1))
       : s \in {s_}})

\* sched_cfs.c:113-149
rb_insert(s_, thread) ==
    The({
       (The({
           (IF ~f.ends THEN Fault(s)
            ELSE The({
                (The({
                (The({
                (The({
                    ([s4 EXCEPT !.rq.cfs_count = @ + 1])
                    : s4 \in {rb_insert_fixup(s3, thread, 2 * MaxNodes)}}))
                : s3 \in {
                     IF \/ s2.rq.rb_leftmost = NULL
                        \/ U64Lt(s2.tcb[thread].vruntime,
                                 s2.tcb[s2.rq.rb_leftmost].vruntime)
                     THEN [s2 EXCEPT !.rq.rb_leftmost = thread]
                     ELSE s2}}))
                : s2 \in {
                     IF f.y = NULL THEN [s1 EXCEPT !.rq.rb_root = thread]
                     ELSE IF U64Lt(s1.tcb[thread].vruntime, s1.tcb[f.y].vruntime)
                     THEN [s1 EXCEPT !.tcb[f.y].rb_left = thread]
                     ELSE [s1 EXCEPT !.tcb[f.y].rb_right = thread]}}))
                : s1 \in {
                     [s EXCEPT !.tcb[thread].rb_parent = f.y,
                               !.tcb[thread].rb_left = NULL,
                               !.tcb[thread].rb_right = NULL,
                               !.tcb[thread].rb_color = RB_RED]}}))
           : f \in {rb_insert_point(s, thread, s.rq.rb_root, NULL, 2 * MaxNodes)}}))
       : s \in {s_}})

\* sched_cfs.c:151-164
rb_transplant(s_, u, v) ==
    The({
       (The({
       (The({
           (IF v # NULL THEN [s1 EXCEPT !.tcb[v].rb_parent = s1.tcb[u].rb_parent]
            ELSE s1)
           : s1 \in {
            IF p = NULL THEN [s EXCEPT !.rq.rb_root = v]
            ELSE IF u = s.tcb[p].rb_left THEN [s EXCEPT !.tcb[p].rb_left = v]
            ELSE [s EXCEPT !.tcb[p].rb_right = v]}}))
       : p \in {s.tcb[u].rb_parent}}))
       : s \in {s_}})

\* sched_cfs.c:166-172; NULL when the walk does not end
RECURSIVE rb_minimum(_, _, _)
rb_minimum(s_, x, fuel) ==
    The({
       (IF s.tcb[x].rb_left = NULL THEN x
        ELSE IF fuel = 0 THEN NULL
        ELSE rb_minimum(s, s.tcb[x].rb_left, fuel - 1))
       : s \in {s_}})

\* the child of n on the side of x's sibling (left: x is the left child),
\* and the two children of that sibling w
rb_sibling(s, n, left) == IF left THEN s.tcb[n].rb_right ELSE s.tcb[n].rb_left

rb_far(s, w, left) == IF left THEN s.tcb[w].rb_right ELSE s.tcb[w].rb_left

rb_near(s, w, left) == IF left THEN s.tcb[w].rb_left ELSE s.tcb[w].rb_right

\* sched_cfs.c:190-194, 217-221: the sibling's far child is black
rb_remove_inner(s_, w, left) ==
    The({
       (The({
       (The({
           (rb_rotate([a EXCEPT !.tcb[w].rb_color = RB_RED], w, ~left))
           : a \in {IF near # NULL THEN [s EXCEPT !.tcb[near].rb_color = RB_BLACK] ELSE s}}))
       : near \in {rb_near(s, w, left)}}))
       : s \in {s_}})

\* the else branch of rb_remove_fixup (sched_cfs.c:190-201, 217-228), which
\* ends the loop with x = rb_root: left is TRUE when x is the left child
rb_remove_rotate(s_, xp, left) ==
    The({
       (The({
       (The({
       (The({
           (IF s1.crashed \/ w1 = NULL THEN Fault(s1)
            ELSE The({
                (The({
                (The({
                (The({
                (The({
                    (IF s5.crashed \/ s5.rq.rb_root = NULL THEN s5
                     ELSE [s5 EXCEPT !.tcb[s5.rq.rb_root].rb_color =
                                         RB_BLACK])
                    : s5 \in {rb_rotate(s4, xp, left)}}))
                : s4 \in {
                     IF far1 # NULL
                     THEN [s3 EXCEPT !.tcb[far1].rb_color = RB_BLACK]
                     ELSE s3}}))
                : far1 \in {rb_far(s3, w1, left)}}))
                : s3 \in {[s2 EXCEPT !.tcb[xp].rb_color = RB_BLACK]}}))
                : s2 \in {[s1 EXCEPT !.tcb[w1].rb_color = s1.tcb[xp].rb_color]}}))
           : w1 \in {rb_sibling(s1, xp, left)}}))
       : s1 \in {
            IF IsBlack(s, rb_far(s, w, left)) THEN rb_remove_inner(s, w, left)
            ELSE s}}))
       : w \in {rb_sibling(s, xp, left)}}))
       : s \in {s_}})

\* sched_cfs.c:181-186, 208-213: the sibling w0 is red
rb_remove_red(s_, w0, x_parent, left) ==
    The({
       (The({
           (rb_rotate([a EXCEPT !.tcb[x_parent].rb_color = RB_RED],
                      x_parent, left))
           : a \in {[s EXCEPT !.tcb[w0].rb_color = RB_BLACK]}}))
       : s \in {s_}})

\* sched_cfs.c:174-237
RECURSIVE rb_remove_fixup(_, _, _, _)
rb_remove_fixup(s_, x, x_parent, fuel) ==
    The({
       (IF s.crashed THEN s
        ELSE IF x = s.rq.rb_root \/ IsRed(s, x)
        THEN IF x # NULL THEN [s EXCEPT !.tcb[x].rb_color = RB_BLACK] ELSE s
        ELSE IF fuel = 0 \/ x_parent = NULL THEN Fault(s)
        ELSE The({
            (The({
            (The({
            (The({
                (IF s1.crashed THEN s1
                 ELSE IF w # NULL /\ ~(/\ IsBlack(s1, s1.tcb[w].rb_left)
                                       /\ IsBlack(s1, s1.tcb[w].rb_right))
                 THEN rb_remove_rotate(s1, x_parent, left)
                 ELSE rb_remove_fixup(
                          IF w = NULL THEN s1
                          ELSE [s1 EXCEPT !.tcb[w].rb_color = RB_RED],
                          x_parent, s1.tcb[x_parent].rb_parent, fuel - 1))
                : w \in {rb_sibling(s1, x_parent, left)}}))
            : s1 \in {IF IsRed(s, w0) THEN rb_remove_red(s, w0, x_parent, left) ELSE s}}))
            : w0 \in {rb_sibling(s, x_parent, left)}}))
            : left \in {x = s.tcb[x_parent].rb_left}}))
       : s \in {s_}})

\* sched_cfs.c:261-266: y, the minimum of z's right subtree, is not z's child
rb_remove_lift(s_, z, y) ==
    The({
       (The({
       (The({
           ([b EXCEPT !.tcb[b.tcb[y].rb_right].rb_parent = y])
           : b \in {[a EXCEPT !.tcb[y].rb_right = a.tcb[z].rb_right]}}))
       : a \in {rb_transplant(s, y, s.tcb[y].rb_right)}}))
       : s \in {s_}})

\* rb_remove for a node with two children (sched_cfs.c:257-274): y is the
\* minimum of z's right subtree
rb_remove_splice(s_, z, y) ==
    The({
       (The({
       (The({
       (The({
       (The({
           ([s4 EXCEPT !.tcb[y].rb_color = s4.tcb[z].rb_color])
           : s4 \in {[s3 EXCEPT !.tcb[s3.tcb[y].rb_left].rb_parent = y]}}))
       : s3 \in {[s2 EXCEPT !.tcb[y].rb_left = s2.tcb[z].rb_left]}}))
       : s2 \in {rb_transplant(s1, z, y)}}))
       : s1 \in {IF s.tcb[y].rb_parent = z THEN s ELSE rb_remove_lift(s, z, y)}}))
       : s \in {s_}})

\* sched_cfs.c:276-280: the cached leftmost node after z left the tree
rb_remove_leftmost(s_, z) ==
    The({
       (IF z # s.rq.rb_leftmost THEN s
        ELSE IF s.rq.rb_root = NULL THEN [s EXCEPT !.rq.rb_leftmost = NULL]
        ELSE The({
                (IF m = NULL THEN Fault(s) ELSE [s EXCEPT !.rq.rb_leftmost = m])
                : m \in {rb_minimum(s, s.rq.rb_root, 2 * MaxNodes)}}))
       : s \in {s_}})

\* sched_cfs.c:239-292, for the y chosen at lines 241-259
rb_remove_node(s_, z, y, two) ==
    The({
       (The({
       (The({
       (The({
       (The({
       (The({
       (The({
           ([s3 EXCEPT !.tcb[z].rb_parent = NULL,
                       !.tcb[z].rb_left = NULL,
                       !.tcb[z].rb_right = NULL,
                       !.rq.cfs_count = @ - 1])
           : s3 \in {
            IF y_original_color = RB_BLACK /\ s2.rq.rb_root # NULL
            THEN rb_remove_fixup(s2, x, x_parent, 2 * MaxNodes)
            ELSE s2}}))
       : s2 \in {rb_remove_leftmost(s1, z)}}))
       : s1 \in {IF two THEN rb_remove_splice(s, z, y) ELSE rb_transplant(s, z, x)}}))
       : x_parent \in {
            IF ~two THEN s.tcb[z].rb_parent
            ELSE IF s.tcb[y].rb_parent = z THEN y
            ELSE s.tcb[y].rb_parent}}))
       : x \in {
            IF s.tcb[z].rb_left = NULL THEN s.tcb[z].rb_right
            ELSE IF s.tcb[z].rb_right = NULL THEN s.tcb[z].rb_left
            ELSE s.tcb[y].rb_right}}))
       : y_original_color \in {s.tcb[y].rb_color}}))
       : s \in {s_}})

\* sched_cfs.c:239-292
rb_remove(s_, z) ==
    The({
       (IF z = NULL THEN s
        ELSE The({
            (The({
                (IF y = NULL THEN Fault(s) ELSE rb_remove_node(s, z, y, two))
                : y \in {
                 IF two THEN rb_minimum(s, s.tcb[z].rb_right, 2 * MaxNodes)
                 ELSE z}}))
            : two \in {s.tcb[z].rb_left # NULL /\ s.tcb[z].rb_right # NULL}}))
       : s \in {s_}})

\* the timeslice of cfs_enqueue (sched_cfs.c:330-341).  The product
\* CFS_TARGET_LATENCY_NS * thread->weight is of type int and overflows for
\* the default weight; the build either wraps it at 32 bits and divides as
\* int, or computes it in a wider type
cfs_slice(s_, weight) ==
    The({
       (LET total_weight == IF s.rq.cfs_count * CFS_NICE_0_WEIGHT = 0 THEN weight
                            ELSE s.rq.cfs_count * CFS_NICE_0_WEIGHT
            product == U64Mul(U64(CFS_TARGET_LATENCY_NS), weight)
            slice == IF s.rq.int_overflow = "widens" THEN U64Div(product, total_weight)
                     ELSE IF product[3] < 32768
                     THEN U64((product[3] * 65536 + product[4]) \div total_weight)
                     ELSE U64Sub(U64(0),
                                 U64(((65535 - product[3]) * 65536
                                      + (65536 - product[4])) \div total_weight))
        IN  IF U64Lt(slice, U64(CFS_MIN_GRANULARITY_NS))
            THEN U64(CFS_MIN_GRANULARITY_NS) ELSE slice)
       : s \in {s_}})

\* sched_cfs.c:318-327: a new thread starts at min_vruntime, and no thread
\* is queued behind it
cfs_place(s_, thread) ==
    The({
       (The({
           (IF U64Lt(s1.tcb[thread].vruntime, s1.rq.min_vruntime)
            THEN [s1 EXCEPT !.tcb[thread].vruntime = s1.rq.min_vruntime]
            ELSE s1)
           : s1 \in {
            IF s.tcb[thread].vruntime = U64(0)
            THEN [s EXCEPT !.tcb[thread].vruntime = s.rq.min_vruntime]
            ELSE s}}))
       : s \in {s_}})

\* sched_cfs.c:314-341
cfs_enqueue(s_, thread) ==
    The({
       (IF thread = NULL THEN s
        ELSE The({
                (IF s3.crashed THEN s3
                 ELSE [s3 EXCEPT !.tcb[thread].timeslice_remaining =
                                      cfs_slice(s3, s3.tcb[thread].weight)])
                : s3 \in {rb_insert(cfs_place(s, thread), thread)}}))
       : s \in {s_}})

\* sched_cfs.c:343-350
cfs_dequeue(s_) ==
    The({
       (IF s.rq.rb_leftmost # NULL THEN rb_remove(s, s.rq.rb_leftmost) ELSE s)
       : s \in {s_}})

\* the search loop of cfs_remove (sched_cfs.c:356-371): "yes", "no", or
\* "loops" on a cyclic tree
RECURSIVE cfs_found(_, _, _, _)
cfs_found(s_, node, thread, fuel) ==
    The({
       (IF node = NULL THEN "no"
        ELSE IF node = thread THEN "yes"
        ELSE IF fuel = 0 THEN "loops"
        ELSE cfs_found(s, IF U64Lt(s.tcb[thread].vruntime, s.tcb[node].vruntime)
                          THEN s.tcb[node].rb_left ELSE s.tcb[node].rb_right,
                       thread, fuel - 1))
       : s \in {s_}})

\* sched_cfs.c:352-376
cfs_remove(s_, thread) ==
    The({
       (IF thread = NULL THEN s
        ELSE The({
                (IF found = "loops" THEN Fault(s)
                 ELSE IF found = "yes" THEN rb_remove(s, thread)
                 ELSE s)
                : found \in {cfs_found(s, s.rq.rb_root, thread, 2 * MaxNodes)}}))
       : s \in {s_}})

\* sched_cfs.c:391-411
cfs_on_tick(s_, thread, elapsed_ns) ==
    The({
       (IF thread = NULL THEN s
        ELSE The({
            (The({
                (IF U64Lt(elapsed_ns, s2.tcb[thread].timeslice_remaining)
                 THEN [s2 EXCEPT !.tcb[thread].timeslice_remaining =
                                     U64Sub(@, elapsed_ns)]
                 ELSE [s2 EXCEPT !.tcb[thread].timeslice_remaining = U64(0)])
                : s2 \in {
                 IF U64Lt(s1.rq.min_vruntime, s1.tcb[thread].vruntime)
                 THEN [s1 EXCEPT !.rq.min_vruntime = s1.tcb[thread].vruntime]
                 ELSE s1}}))
            : s1 \in {
                 [s EXCEPT !.tcb[thread].vruntime =
                               U64Add(@, U64Div(U64Mul(elapsed_ns, CFS_NICE_0_WEIGHT),
                                                s.tcb[thread].weight))]}}))
       : s \in {s_}})

\* sched_cfs.c:413-433
cfs_should_preempt(s_, cur) ==
    The({
       (IF cur = NULL THEN FALSE
        ELSE IF s.tcb[cur].timeslice_remaining = U64(0) THEN s.rq.cfs_count > 0
        ELSE /\ s.rq.rb_leftmost # NULL
             /\ U64Lt(U64(CFS_MIN_GRANULARITY_NS),
                      U64Sub(s.tcb[cur].vruntime,
                             s.tcb[s.rq.rb_leftmost].vruntime)))
       : s \in {s_}})

(***************************************************************************)
(* g_scheduler.ops: the policy selected by uthread_init (uthread.c:38-50). *)
(***************************************************************************)
ops_enqueue(s_, t) ==
    The({
       (IF s.rq.ops = "priority" THEN priority_enqueue(s, t)
        ELSE IF s.rq.ops = "cfs" THEN cfs_enqueue(s, t)
        ELSE rr_enqueue(s, t))
       : s \in {s_}})

ops_dequeue(s_) ==
    The({
       (IF s.rq.ops = "priority" THEN priority_dequeue(s)
        ELSE IF s.rq.ops = "cfs" THEN cfs_dequeue(s)
        ELSE rr_dequeue(s))
       : s \in {s_}})

\* the thread ops->dequeue() returns, NULL when none is queued
ops_head(s_) ==
    The({
       (IF s.rq.ops = "priority"
        THEN IF find_highest_priority(s) < 0 THEN NULL
             ELSE s.rq.queues[find_highest_priority(s)]
        ELSE IF s.rq.ops = "cfs" THEN s.rq.rb_leftmost
        ELSE s.rq.head)
       : s \in {s_}})

ops_remove(s_, t) ==
    The({
       (IF s.rq.ops = "priority" THEN priority_remove(s, t)
        ELSE IF s.rq.ops = "cfs" THEN cfs_remove(s, t)
        ELSE rr_remove(s, t))
       : s \in {s_}})

\* elapsed_ge_remaining is elapsed_ns itself under CFS, which adds it to
\* the thread's vruntime
ops_on_tick(s_, t, elapsed_ge_remaining) ==
    The({
       (IF s.rq.ops = "priority" THEN priority_on_tick(s, t, elapsed_ge_remaining)
        ELSE IF s.rq.ops = "cfs" THEN cfs_on_tick(s, t, elapsed_ge_remaining)
        ELSE rr_on_tick(s, t, elapsed_ge_remaining))
       : s \in {s_}})

ops_should_preempt(s_, t) ==
    The({
       (IF s.rq.ops = "priority" THEN priority_should_preempt(s, t)
        ELSE IF s.rq.ops = "cfs" THEN cfs_should_preempt(s, t)
        ELSE rr_should_preempt(s, t))
       : s \in {s_}})

(***************************************************************************)
(* Context switch (context.c).  A saved context is a stack pointer into    *)
(* one of the stacks and a signal mask; the frames stay on the stack.  A   *)
(* context is live from swapcontext/makecontext until the stack it points  *)
(* into runs again; restoring a context that is not live jumps into frames *)
(* that have since been popped and overwritten, and restoring the context  *)
(* of idle_thread, which uthread.c:58 zeroes and nothing fills in, loads a *)
(* null program counter.  The model stops there: crashed.                  *)
(***************************************************************************)
context_switch_to(s_, from, to) ==
    The({
       (LET s1 == [s EXCEPT !.ctx[from] = [stk |-> s.cpu, live |-> TRUE,
                                            mask |-> s.mask]]
            c == s1.ctx[to]
        IN  IF to = Idle \/ ~c.live THEN [s1 EXCEPT !.crashed = TRUE]
            ELSE [s1 EXCEPT !.cpu = c.stk, !.mask = c.mask, !.ctx[to].live = FALSE])
       : s \in {s_}})

(***************************************************************************)
(* Scheduler core (scheduler.c).  With SIGALRM blocked scheduler_schedule  *)
(* runs through the swap; with SIGALRM open it runs up to the call of      *)
(* context_switch_to, which the frame "sched_switch" then performs, so     *)
(* that a signal can arrive after in_scheduler is cleared (line 209).      *)
(***************************************************************************)
scheduler_schedule(s_) ==
    The({
       (The({
       (The({
       (The({
       (The({
           (IF next = cur THEN [s1 EXCEPT !.in_scheduler = FALSE]
            ELSE The({
                (The({
                    (IF s3.mask THEN context_switch_to(s3, cur, next)
                     ELSE Push(s3, Fr("sched_switch", cur, next)))
                    : s3 \in {
                     [s2 EXCEPT !.tcb[next].state = "RUNNING",
                                !.current = next, !.in_scheduler = FALSE]}}))
                : s2 \in {
                     IF cur # NULL /\ s1.tcb[cur].state = "RUNNING"
                     THEN [s1 EXCEPT !.tcb[cur].state = "READY"]
                     ELSE s1}}))
           : s1 \in {ops_dequeue(s)}}))
       : next \in {IF head = NULL THEN Idle ELSE head}}))
       : head \in {ops_head(s)}}))
       : cur \in {s.current}}))
       : s \in {s_}})

scheduler_yield(s_) ==
    The({
       (LET cur == s.current IN
        IF cur = NULL \/ cur = Idle THEN s
        ELSE LET s1 == IF s.tcb[cur].state = "RUNNING"
                       THEN ops_enqueue([s EXCEPT !.tcb[cur].state = "READY"], cur)
                       ELSE s
             IN  scheduler_schedule(s1))
       : s \in {s_}})

scheduler_unblock(s_, t) ==
    The({
       (IF t = NULL THEN s
        ELSE ops_enqueue([s EXCEPT !.tcb[t].state = "READY"], t))
       : s \in {s_}})

wait_queue_wake_one(s_, q) ==
    The({
       (IF q = NullQ THEN s
        ELSE LET t == s.wq[q].head IN
             IF t = NULL THEN s ELSE scheduler_unblock(wait_queue_remove(s, q), t))
       : s \in {s_}})

RECURSIVE wake_all_loop(_, _, _)
wake_all_loop(s_, q, fuel) ==
    The({
       (IF s.wq[q].head = NULL THEN s
        ELSE IF fuel = 0 THEN [s EXCEPT !.crashed = TRUE]
        ELSE wake_all_loop(wait_queue_wake_one(s, q), q, fuel - 1))
       : s \in {s_}})

wait_queue_wake_all(s_, q) ==
    The({
       (IF q = NullQ THEN s ELSE wake_all_loop(s, q, 2 * MaxThreads))
       : s \in {s_}})

scheduler_tick(s_, elapsed_ge_remaining) ==
    The({
       (LET cur == s.current IN
        IF cur = NULL \/ cur = Idle THEN s
        ELSE The({
                (IF ops_should_preempt(s1, cur)
                 THEN scheduler_schedule(
                          ops_enqueue([s1 EXCEPT !.tcb[cur].state = "READY"], cur))
                 ELSE s1)
                : s1 \in {ops_on_tick(s, cur, elapsed_ge_remaining)}}))
       : s \in {s_}})

(***************************************************************************)
(* Timer and preemption control (timer.c).                                 *)
(***************************************************************************)
preemption_disable(s_) ==
    The({
       ([s EXCEPT !.mask = TRUE, !.s_preemption_disabled = @ + 1])
       : s \in {s_}})

\* preemption_enable up to sigprocmask(SIG_UNBLOCK); with a tick pending the
\* frame "pe_unblocked" is the rest of it (timer.c:188-199).
preemption_enable(s_) ==
    The({
       (IF s.s_preemption_disabled = 0 THEN s
        ELSE LET s1 == [s EXCEPT !.s_preemption_disabled = @ - 1] IN
             IF s1.s_preemption_disabled = 0
             THEN IF s1.s_preempt_pending
                  THEN Push([s1 EXCEPT !.mask = FALSE], Fr("pe_unblocked", NULL, NULL))
                  ELSE [s1 EXCEPT !.mask = FALSE]
             ELSE s1)
       : s \in {s_}})

preemption_enable_pending(s_, elapsed_ge_remaining) ==
    The({
       (LET s0 == Pop(s) IN
        IF s0.s_preempt_pending
        THEN LET s1 == [s0 EXCEPT !.s_preempt_pending = FALSE] IN
             IF ~s1.in_scheduler
             THEN IF s1.current = NULL \/ ~s1.tcb[s1.current].in_critical_section
                  THEN scheduler_tick(s1, elapsed_ge_remaining)
                  ELSE s1
             ELSE s1
        ELSE s0)
       : s \in {s_}})

\* a handler that goes to scheduler_tick whatever the depth counter says
handler_unguarded(s_, elapsed_ge_remaining) ==
    The({
       (scheduler_tick(Push([s EXCEPT !.mask = TRUE], Fr("handler_ret", NULL, NULL)),
                       elapsed_ge_remaining))
       : s \in {s_}})

\* The handler runs with every signal blocked (sa_mask, timer.c:75); its
\* return restores the mask of the interrupted code, which had SIGALRM open.
timer_signal_handler(s_, elapsed_ge_remaining) ==
    The({
       (LET h == Push([s EXCEPT !.mask = TRUE], Fr("handler_ret", NULL, NULL)) IN
        IF h.s_preemption_disabled > 0 THEN [h EXCEPT !.s_preempt_pending = TRUE]
        ELSE IF h.in_scheduler THEN h
        ELSE IF h.current # NULL /\ h.tcb[h.current].in_critical_section
        THEN [h EXCEPT !.s_preempt_pending = TRUE]
        ELSE scheduler_tick(h, elapsed_ge_remaining))
       : s \in {s_}})

sigreturn(s_) ==
    The({
    ([Pop(s) EXCEPT !.mask = FALSE])
    : s \in {s_}})

(***************************************************************************)
(* Calls from user code.  The user frame holds the index of the next call  *)
(* of the start routine; a library call runs in a frame above it.          *)
(***************************************************************************)
Finished ==
    /\ cpu = Main
    /\ Len(stk[Main]) = 1
    /\ Top.l = "user"
    /\ Top.a > Len(prog[Main])

Running == ~crashed /\ ~Finished

AtUser(o) ==
    /\ Running
    /\ Top.l = "user"
    /\ Top.a <= Len(prog[cpu])
    /\ prog[cpu][Top.a].op = o

Arg == prog[cpu][Top.a].x

Call == Push(SetTop(St, Fr("user", Top.a + 1, NULL)), Fr("lib", NULL, NULL))

At(l) == Running /\ Top.l = l

\* return code; without and with the closing preemption_enable()
Return(s_, code) ==
    The({
    ([Pop(s) EXCEPT !.rc[s.cpu] = code])
    : s \in {s_}})

EnableReturn(s_, code) ==
    The({
    (preemption_enable(Return(s, code)))
    : s \in {s_}})

(***************************************************************************)
(* Thread lifecycle (uthread.c).                                           *)
(***************************************************************************)
thread_alloc ==
    [state |-> "READY", next |-> NULL, prev |-> NULL, blocked_queue |-> NullQ,
     waiting_on |-> NULL, joiner |-> NULL, exited |-> FALSE,
     detached |-> FALSE, retval |-> 0, timeslice_remaining |-> 0,
     in_critical_section |-> FALSE, mem |-> "live", tid |-> 0,
     priority |-> UTHREAD_PRIORITY_DEFAULT,
     weight |-> CFS_NICE_0_WEIGHT, vruntime |-> U64(0),
     rb_left |-> NULL, rb_right |-> NULL, rb_parent |-> NULL,
     rb_color |-> RB_RED]

thread_free(s_, t) ==
    The({
    ([s EXCEPT !.tcb[t].mem = "freed"])
    : s \in {s_}})

\* scheduler.c:145-159; all_threads holds the registered threads of the
\* program and others counts the slots taken by threads it does not name
scheduler_add_thread(s_, t) ==
    The({
       (IF Cardinality(s.g_scheduler.all_threads) + s.g_scheduler.others
               < UTHREAD_MAX_THREADS
        THEN [s EXCEPT !.g_scheduler.all_threads = @ \cup {t},
                       !.g_scheduler.thread_count = @ + 1]
        ELSE [s EXCEPT !.crashed = TRUE])
       : s \in {s_}})

\* scheduler.c:161-172
scheduler_remove_thread(s_, t) ==
    The({
       (IF t \in s.g_scheduler.all_threads
        THEN [s EXCEPT !.g_scheduler.all_threads = @ \ {t},
                       !.g_scheduler.thread_count = @ - 1]
        ELSE s)
       : s \in {s_}})

context_init(s_, t) ==
    The({
       ([s EXCEPT !.ctx[t] = [stk |-> t, live |-> TRUE, mask |-> s.mask],
                  !.stk[t] = <<Fr("entry", NULL, NULL)>>])
       : s \in {s_}})

\* uthread_create with an attribute object: detach state and priority
uthread_create_attr(s_, t, det, priority) ==
    The({
       (LET s1 == preemption_disable(s)
            s2 == [s1 EXCEPT !.tcb[t] = [thread_alloc EXCEPT
                                            !.tid = s1.g_scheduler.next_tid,
                                            !.detached = det,
                                            !.priority = priority]]
            s3 == scheduler_add_thread(
                      context_init([s2 EXCEPT !.g_scheduler.next_tid = @ + 1], t), t)
        IN  IF s3.crashed THEN s3
            ELSE EnableReturn([ops_enqueue(s3, t) EXCEPT !.obs.handle = @ \cup {t}],
                              "SUCCESS"))
       : s \in {s_}})

\* uthread_create when calloc (tcb) or the stack allocation (stack) fails
\* (uthread.c:170-174, 200-205)
uthread_create_nomem(s_, t, failing) ==
    The({
       (LET s1 == preemption_disable(s) IN
        IF failing = "tcb" THEN EnableReturn(s1, "ENOMEM")
        ELSE EnableReturn(
                 thread_free([s1 EXCEPT !.g_scheduler.next_tid = @ + 1], t),
                 "ENOMEM"))
       : s \in {s_}})

uthread_create(s_, t, det) ==
    uthread_create_attr(s_, t, det, UTHREAD_PRIORITY_DEFAULT)

\* the run queue of policy as its init() and shutdown() leave it
\* (sched_rr.c:21-31, sched_priority.c:107-116, sched_cfs.c:303-312)
ops_reset(s_, policy) ==
    The({
       (IF policy = "priority"
        THEN [s EXCEPT !.rq.queues = [i \in Levels |-> NULL], !.rq.bitmap = {},
                       !.rq.pcount = 0]
        ELSE IF policy = "cfs"
        THEN [s EXCEPT !.rq.rb_root = NULL, !.rq.rb_leftmost = NULL,
                       !.rq.min_vruntime = U64(0), !.rq.cfs_count = 0]
        ELSE [s EXCEPT !.rq.head = NULL, !.rq.tail = NULL, !.rq.count = 0])
       : s \in {s_}})

\* uthread.c:24-110
uthread_init(s_, policy) ==
    The({
       (IF s.g_scheduler.initialized THEN Return(s, "EINVAL")
        ELSE LET s1 == ops_reset([s EXCEPT !.rq.ops = policy,
                                           !.in_scheduler = FALSE,
                                           !.g_scheduler = [initialized |-> FALSE,
                                                            all_threads |-> {},
                                                            others |-> 0,
                                                            thread_count |-> 0,
                                                            next_tid |-> 1]],
                                 policy)
                 s2 == [s1 EXCEPT !.tcb[Idle] = thread_alloc,
                                  !.tcb[Main] = [thread_alloc EXCEPT
                                                    !.tid = s1.g_scheduler.next_tid,
                                                    !.state = "RUNNING"],
                                  !.g_scheduler.next_tid = @ + 1,
                                  !.ctx[Main] = [stk |-> Main, live |-> FALSE,
                                                 mask |-> s1.mask],
                                  !.current = Main]
                 s3 == scheduler_add_thread(s2, Main)
             IN  Return([s3 EXCEPT !.s_preemption_disabled = 0,
                                   !.s_preempt_pending = FALSE,
                                   !.g_scheduler.initialized = TRUE],
                        "SUCCESS"))
       : s \in {s_}})

\* a shutdown that leaves the library marked initialized
shutdown_still_initialized(s_) ==
    The({
       (IF ~s.g_scheduler.initialized THEN Pop(s)
        ELSE Pop(ops_reset(
                 [s EXCEPT !.tcb = [t \in Tcbs |->
                                      IF t \in s.g_scheduler.all_threads
                                      THEN [s.tcb[t] EXCEPT !.mem = "freed"]
                                      ELSE s.tcb[t]],
                           !.g_scheduler.all_threads = {}],
                 s.rq.ops)))
       : s \in {s_}})

\* uthread.c:112-138
uthread_shutdown(s_) ==
    The({
       (IF ~s.g_scheduler.initialized THEN Pop(s)
        ELSE Pop(ops_reset(
                 [s EXCEPT !.tcb = [t \in Tcbs |->
                                      IF t \in s.g_scheduler.all_threads
                                      THEN [s.tcb[t] EXCEPT !.mem = "freed"]
                                      ELSE s.tcb[t]],
                           !.g_scheduler.all_threads = {},
                           !.g_scheduler.initialized = FALSE],
                 s.rq.ops)))
       : s \in {s_}})

\* uthread.c:284-315
uthread_detach(s_, t) ==
    The({
       (IF ~s.g_scheduler.initialized \/ t = NULL THEN Return(s, "EINVAL")
        ELSE LET s1 == preemption_disable(s) IN
             IF s1.tcb[t].detached THEN EnableReturn(s1, "EINVAL")
             ELSE IF s1.tcb[t].joiner # NULL THEN EnableReturn(s1, "EINVAL")
             ELSE LET s2 == [s1 EXCEPT !.tcb[t].detached = TRUE] IN
                  EnableReturn(IF s2.tcb[t].exited
                               THEN thread_free(scheduler_remove_thread(s2, t), t)
                               ELSE s2,
                               "SUCCESS"))
       : s \in {s_}})

context_entry_wrapper(s_) ==
    The({
       (preemption_enable(SetTop(s, Fr("user", 1, NULL))))
       : s \in {s_}})

\* a join that does not wait for the thread to exit
join_nowait(s, self, t) ==
    EnableReturn(
        thread_free(scheduler_remove_thread(
                        [s EXCEPT !.obs.joinret[t] = s.tcb[t].retval], t), t),
        "SUCCESS")

\* an exit that forgets the joiner
exit_nowake(s, v) ==
    LET s1 == preemption_disable(s)
        self == s1.current
    IN  ops_remove([s1 EXCEPT !.tcb[self].retval = v, !.tcb[self].exited = TRUE,
                             !.tcb[self].state = "TERMINATED"], self)

\* an exit that wakes the joiner and leaves its waiting_on in place
exit_keeps_waiting_on(s_, v) ==
    The({
       (LET s1 == preemption_disable(s)
            self == s1.current
            s2 == [s1 EXCEPT !.tcb[self].retval = v, !.tcb[self].exited = TRUE,
                             !.tcb[self].state = "TERMINATED"]
        IN  The({
           (The({
           (The({
               (IF s4.tcb[self].detached
                THEN thread_free(scheduler_remove_thread(s4, self), self)
                ELSE s4)
               : s4 \in {
                IF j # NULL
                THEN ops_enqueue([s3 EXCEPT !.tcb[j].state = "READY"], j)
                ELSE s3}}))
           : j \in {s3.tcb[self].joiner}}))
           : s3 \in {ops_remove(s2, self)}}))
       : s \in {s_}})

\* uthread_exit up to its scheduler_schedule() (uthread.c:340-378)
exit_wake(s_, v) ==
    The({
       (LET s1 == preemption_disable(s)
            self == s1.current
            s2 == [s1 EXCEPT !.tcb[self].retval = v, !.tcb[self].exited = TRUE,
                             !.tcb[self].state = "TERMINATED"]
        IN  The({
           (The({
           (The({
               (IF s4.tcb[self].detached
                THEN thread_free(scheduler_remove_thread(s4, self), self)
                ELSE s4)
               : s4 \in {
                IF j # NULL
                THEN ops_enqueue([s3 EXCEPT !.tcb[j].waiting_on = NULL,
                                           !.tcb[j].state = "READY"], j)
                ELSE s3}}))
           : j \in {s3.tcb[self].joiner}}))
           : s3 \in {ops_remove(s2, self)}}))
       : s \in {s_}})

uthread_exit(s_, v) ==
    The({
       (The({
           (IF s1.crashed THEN s1
            ELSE scheduler_schedule(SetTop(s1, Fr("exit_unreachable", NULL, NULL))))
           : s1 \in {exit_wake(s, v)}}))
       : s \in {s_}})

\* obs.joinblk[t]: the join of t had to block; obs.joinret[t]: *retval
join_loop(s_, self, t) ==
    The({
       (IF ~s.tcb[t].exited
        THEN scheduler_schedule(
                 SetTop([s EXCEPT !.tcb[t].joiner = self,
                                  !.tcb[self].waiting_on = t,
                                  !.tcb[self].state = "BLOCKED",
                                  !.obs.joinblk[t] = TRUE],
                        Fr("join_resume", self, t)))
        ELSE EnableReturn(
                 thread_free(scheduler_remove_thread(
                                 [s EXCEPT !.obs.joinret[t] = s.tcb[t].retval], t), t),
                 "SUCCESS"))
       : s \in {s_}})

uthread_join(s_, t) ==
    The({
       (LET self == s.current IN
        IF t = self THEN Return(s, "EDEADLK")
        ELSE IF s.tcb[t].detached THEN Return(s, "EINVAL")
        ELSE LET s1 == preemption_disable(s) IN
             IF s1.tcb[t].joiner # NULL /\ s1.tcb[t].joiner # self
             THEN EnableReturn(s1, "EINVAL")
             ELSE join_loop(s1, self, t))
       : s \in {s_}})

uthread_yield(s_) ==
    The({
       (LET s1 == preemption_disable(s)
            self == s1.current
        IN  IF self # NULL
            THEN scheduler_yield(SetTop(s1, Fr("yield_resume", NULL, NULL)))
            ELSE EnableReturn(s1, "SUCCESS"))
       : s \in {s_}})

\* uthread.c:410-416, from the head of the loop; clock says that the
\* monotonic clock has reached the target
sleep_loop(s_) ==
    The({
       (IF s.clock THEN Pop(s)
        ELSE uthread_yield(Push(SetTop(s, Fr("sleep_loop", NULL, NULL)),
                                Fr("lib", NULL, NULL))))
       : s \in {s_}})

\* uthread.c:401-417
uthread_sleep(s_, milliseconds) ==
    The({
       (IF milliseconds = 0 THEN Pop(s) ELSE sleep_loop(s))
       : s \in {s_}})

(***************************************************************************)
(* Mutex (mutex.c).                                                        *)
(***************************************************************************)
\* the mutex as uthread_mutex_init leaves it (mutex.c:74-92)
MutexInitialised(type) ==
    [lock |-> 0, owner |-> NULL, recursion_count |-> 0, type |-> type,
     waiters |-> MutexQ, initialized |-> TRUE]

\* mutex.c:68-95, with attr->type = type
uthread_mutex_init(s_, type) ==
    The({
       (Return([s EXCEPT !.mutex = MutexInitialised(type)], "SUCCESS"))
       : s \in {s_}})

\* uthread.h:199-206
UTHREAD_MUTEX_INITIALIZER ==
    [lock |-> 0, owner |-> NULL, waiters |-> NullQ, type |-> "NORMAL",
     recursion_count |-> 0, initialized |-> TRUE]

\* mutex.c:142-149 and 197-204: the wait queue of a mutex not yet initialised
mutex_lazy_init(s_) ==
    The({
       (IF ~s.mutex.initialized
        THEN [s EXCEPT !.mutex.waiters = MutexQ, !.mutex.initialized = TRUE]
        ELSE s)
       : s \in {s_}})

mutex_acquire(s_, self) ==
    The({
       ([s EXCEPT !.mutex.lock = 1, !.mutex.owner = self,
                  !.mutex.recursion_count = 1, !.obs.cs = @ \cup {s.cpu},
                  !.obs.mw = SelectSeq(@, LAMBDA x : x # self)])
       : s \in {s_}})

\* a lock that takes the mutex without testing mutex->lock
mutex_lock_unchecked(s_, self) ==
    The({
       (EnableReturn(mutex_acquire(s, self), "SUCCESS"))
       : s \in {s_}})

mutex_lock_loop(s_, self) ==
    The({
       (IF s.mutex.lock # 0
        THEN LET s1 == IF self # NULL
                       THEN wait_queue_add(
                                [s EXCEPT !.tcb[self].state = "BLOCKED",
                                          !.obs.mw = IF \E i \in 1..Len(@) : @[i] = self
                                                     THEN @ ELSE Append(@, self)],
                                s.mutex.waiters, self)
                       ELSE s
             IN  preemption_enable(SetTop(s1, Fr("mutex_lock_sched", self, NULL)))
        ELSE EnableReturn(mutex_acquire(s, self), "SUCCESS"))
       : s \in {s_}})

uthread_mutex_lock(s_) ==
    The({
       (LET s1 == preemption_disable(mutex_lazy_init(s))
            self == s1.current
        IN  IF s1.mutex.owner = self /\ s1.mutex.type = "RECURSIVE"
            THEN EnableReturn([s1 EXCEPT !.mutex.recursion_count = @ + 1], "SUCCESS")
            ELSE IF s1.mutex.owner = self /\ s1.mutex.type = "ERRORCHECK"
            THEN EnableReturn(s1, "EDEADLK")
            ELSE mutex_lock_loop(s1, self))
       : s \in {s_}})

uthread_mutex_trylock(s_) ==
    The({
       (LET s1 == preemption_disable(mutex_lazy_init(s))
            self == s1.current
        IN  IF s1.mutex.owner = self /\ s1.mutex.type = "RECURSIVE"
            THEN EnableReturn([s1 EXCEPT !.mutex.recursion_count = @ + 1], "SUCCESS")
            ELSE IF s1.mutex.owner = self /\ s1.mutex.type = "ERRORCHECK"
            THEN EnableReturn(s1, "EBUSY")
            ELSE IF s1.mutex.lock = 0
            THEN EnableReturn(mutex_acquire(s1, self), "SUCCESS")
            ELSE EnableReturn(s1, "EBUSY"))
       : s \in {s_}})

mutex_release(s_) ==
    The({
       (LET s1 == [s EXCEPT !.mutex.lock = 0, !.mutex.owner = NULL,
                            !.mutex.recursion_count = 0]
        IN  IF s1.mutex.waiters # NullQ /\ ~wait_queue_empty(s1, s1.mutex.waiters)
            THEN wait_queue_wake_one(s1, s1.mutex.waiters)
            ELSE s1)
       : s \in {s_}})

\* an unlock without the ownership test of the ERRORCHECK type
mutex_unlock_unowned(s_) ==
    The({
       (LET s1 == preemption_disable(s)
        IN  IF ~s.mutex.initialized THEN Return(s, "EINVAL")
            ELSE EnableReturn(mutex_release(s1), "SUCCESS"))
       : s \in {s_}})

uthread_mutex_unlock(s_) ==
    The({
       (LET s1 == preemption_disable(s)
            self == s1.current
        IN  IF ~s.mutex.initialized THEN Return(s, "EINVAL")
            ELSE IF s1.mutex.type = "ERRORCHECK" /\ s1.mutex.owner # self
            THEN EnableReturn(s1, "EPERM")
            ELSE IF /\ s1.mutex.type = "RECURSIVE"
                    /\ s1.mutex.owner = self
                    /\ s1.mutex.recursion_count - 1 > 0
            THEN EnableReturn([s1 EXCEPT !.mutex.recursion_count = @ - 1], "SUCCESS")
            ELSE EnableReturn(mutex_release(s1), "SUCCESS"))
       : s \in {s_}})

(***************************************************************************)
(* Condition variable (condvar.c).  obs.cw lists, in order of arrival, the *)
(* threads that entered a wait and that no signal, broadcast or timeout    *)
(* has taken out yet; obs.cwret holds the threads that returned from a     *)
(* wait and have not unlocked the mutex since.                             *)
(***************************************************************************)
Without(seq, t) == SelectSeq(seq, LAMBDA x : x # t)

\* condvar.c:120-131 and 197-207
cond_enqueue_release(s_, self) ==
    The({
       (LET s1 == wait_queue_add([s EXCEPT !.tcb[self].state = "BLOCKED"],
                                 s.cond.waiters, self)
            s2 == [s1 EXCEPT !.mutex.lock = 0, !.mutex.owner = NULL,
                             !.obs.cs = @ \ {s.cpu}, !.obs.cwret = @ \ {s.cpu},
                             !.obs.cw = Append(@, self)]
        IN  IF s2.mutex.waiters # NullQ /\ ~wait_queue_empty(s2, s2.mutex.waiters)
            THEN wait_queue_wake_one(s2, s2.mutex.waiters)
            ELSE s2)
       : s \in {s_}})

\* a reacquisition that takes the mutex without testing mutex->lock
cond_reacquire_unchecked(s_, self, result) ==
    The({
       (EnableReturn([mutex_acquire(s, self) EXCEPT !.obs.cwret = @ \cup {s.cpu}],
                     result))
       : s \in {s_}})

\* condvar.c:143-162 and 239-256
cond_reacquire(s_, self, result) ==
    The({
       (IF s.mutex.lock # 0
        THEN LET s1 == wait_queue_add([s EXCEPT !.tcb[self].state = "BLOCKED"],
                                      s.mutex.waiters, self)
             IN  preemption_enable(SetTop(s1, Fr("cond_reacq_sched", self, result)))
        ELSE EnableReturn([mutex_acquire(s, self) EXCEPT !.obs.cwret = @ \cup {s.cpu}],
                          result))
       : s \in {s_}})

uthread_cond_wait(s_) ==
    The({
       (LET s1 == preemption_disable(s)
            self == s1.current
        IN  IF self = NULL THEN EnableReturn(s1, "EINVAL")
            ELSE preemption_enable(SetTop(cond_enqueue_release(s1, self),
                                          Fr("cond_wait_sched", self, NULL))))
       : s \in {s_}})

\* the head of the loop at condvar.c:217
cond_timed_loop(s_, self) ==
    The({
       (IF s.tcb[self].blocked_queue # NullQ
        THEN preemption_enable(SetTop(s, Fr("cond_timed_check", self, NULL)))
        ELSE cond_reacquire(s, self, "SUCCESS"))
       : s \in {s_}})

uthread_cond_timedwait(s_) ==
    The({
       (LET s1 == preemption_disable(s)
            self == s1.current
        IN  IF self = NULL THEN EnableReturn(s1, "EINVAL")
            ELSE cond_timed_loop(cond_enqueue_release(s1, self), self))
       : s \in {s_}})

\* condvar.c:220-232
cond_timed_check(s_, self) ==
    The({
       (IF s.clock
        THEN cond_reacquire(
                 wait_queue_remove_specific(
                     [preemption_disable(s) EXCEPT !.obs.cw = Without(@, self)],
                     s.cond.waiters, self),
                 self, "ETIMEDOUT")
        ELSE scheduler_schedule(SetTop(s, Fr("cond_timed_resume", self, NULL))))
       : s \in {s_}})

uthread_cond_signal(s_) ==
    The({
       (LET s1 == [preemption_disable(s) EXCEPT
                       !.cond.signal_seq = @ + 1,
                       !.obs.cw = IF @ = <<>> THEN @ ELSE Tail(@)]
        IN  EnableReturn(IF s1.cond.waiters # NullQ
                            /\ ~wait_queue_empty(s1, s1.cond.waiters)
                         THEN wait_queue_wake_one(s1, s1.cond.waiters)
                         ELSE s1,
                         "SUCCESS"))
       : s \in {s_}})

uthread_cond_broadcast(s_) ==
    The({
       (LET s1 == [preemption_disable(s) EXCEPT !.cond.signal_seq = @ + 1,
                                                !.obs.cw = <<>>]
        IN  EnableReturn(IF s1.cond.waiters # NullQ
                         THEN wait_queue_wake_all(s1, s1.cond.waiters)
                         ELSE s1,
                         "SUCCESS"))
       : s \in {s_}})

\* a condition-variable call on &buffer_not_full: the function runs with that
\* object in the place of cond, and the waiters' list kept for cond is left
\* as it was
pass_buffer_not_full(s_) ==
    The({
       ([s EXCEPT !.cond = s.buf.buffer_not_full, !.buf.buffer_not_full = s.cond])
       : s \in {s_}})

wait_buffer_not_full(s_) ==
    The({
       ([pass_buffer_not_full(uthread_cond_wait(pass_buffer_not_full(s)))
             EXCEPT !.obs.cw = s.obs.cw])
       : s \in {s_}})

signal_buffer_not_full(s_) ==
    The({
       ([pass_buffer_not_full(uthread_cond_signal(pass_buffer_not_full(s)))
             EXCEPT !.obs.cw = s.obs.cw])
       : s \in {s_}})

(***************************************************************************)
(* Semaphore (semaphore.c).  obs.posts counts the posts completed and      *)
(* obs.waits the wait, trywait and timedwait calls that returned success;  *)
(* obs.sw lists, in order of arrival, the threads that blocked on the      *)
(* semaphore and that no post or timeout has taken out since.              *)
(***************************************************************************)
uthread_sem_init(s_, value) ==
    The({
       (Return([s EXCEPT !.sem = [value |-> value, waiters |-> SemQ],
                         !.wq[SemQ] = [head |-> NULL, tail |-> NULL, count |-> 0]],
               "SUCCESS"))
       : s \in {s_}})

\* self->state = BLOCKED; wait_queue_add(q, self); preemption_enable();
\* the call of scheduler_schedule() is the frame "block_sched", and the frame
\* below it is where the caller goes on afterwards
block_on(s_, self, q, resume) ==
    The({
       (LET s1 == IF self # NULL
                  THEN wait_queue_add([s EXCEPT !.tcb[self].state = "BLOCKED"], q, self)
                  ELSE s
        IN  preemption_enable(
                Push(SetTop(s1, Fr(resume, self, NULL)), Fr("block_sched", self, NULL))))
       : s \in {s_}})

sem_block(s_, self, resume) ==
    The({
       (block_on([s EXCEPT !.obs.sw = Append(Without(@, self), self)],
                 self, s.sem.waiters, resume))
       : s \in {s_}})

sem_take(s_) ==
    The({
       (EnableReturn([s EXCEPT !.sem.value = @ - 1, !.obs.waits = @ + 1], "SUCCESS"))
       : s \in {s_}})

\* a wait that decrements without testing the value
sem_wait_unchecked(s_, self) ==
    The({
       (sem_take(s))
       : s \in {s_}})

\* semaphore.c:88-106, from the head of the loop
sem_wait_loop(s_, self) ==
    The({
       (IF s.sem.value <= 0 THEN sem_block(s, self, "sem_wait_resume")
        ELSE sem_take(s))
       : s \in {s_}})

uthread_sem_wait(s_) ==
    The({
       (LET s1 == preemption_disable(s) IN sem_wait_loop(s1, s1.current))
       : s \in {s_}})

uthread_sem_trywait(s_) ==
    The({
       (LET s1 == preemption_disable(s) IN
        IF s1.sem.value > 0 THEN sem_take(s1) ELSE EnableReturn(s1, "EAGAIN"))
       : s \in {s_}})

\* semaphore.c:148-180, from the head of the loop
sem_timed_loop(s_, self) ==
    The({
       (IF s.sem.value <= 0
        THEN IF s.clock THEN EnableReturn(s, "ETIMEDOUT")
             ELSE sem_block(s, self, "sem_timed_resume")
        ELSE sem_take(s))
       : s \in {s_}})

uthread_sem_timedwait(s_) ==
    The({
       (LET s1 == preemption_disable(s) IN sem_timed_loop(s1, s1.current))
       : s \in {s_}})

\* semaphore.c:169-179, after scheduler_schedule() returned
sem_timed_resume(s_, self) ==
    The({
       (LET s1 == preemption_disable(s) IN
        IF s1.clock
        THEN EnableReturn(
                 IF self # NULL /\ s1.tcb[self].blocked_queue # NullQ
                 THEN wait_queue_remove_specific(
                          [s1 EXCEPT !.obs.sw = Without(@, self)], s1.sem.waiters, self)
                 ELSE s1,
                 "ETIMEDOUT")
        ELSE sem_timed_loop(s1, self))
       : s \in {s_}})

uthread_sem_post(s_) ==
    The({
       (LET s1 == [preemption_disable(s) EXCEPT !.sem.value = @ + 1,
                                                !.obs.posts = @ + 1]
        IN  EnableReturn(IF s1.sem.waiters # NullQ /\ ~wait_queue_empty(s1, s1.sem.waiters)
                         THEN wait_queue_wake_one(
                                  [s1 EXCEPT !.obs.sw = IF @ = <<>> THEN @ ELSE Tail(@)],
                                  s1.sem.waiters)
                         ELSE s1,
                         "SUCCESS"))
       : s \in {s_}})

\* *sval is the caller's local
uthread_sem_getvalue(s_) ==
    The({
       (LET s1 == preemption_disable(s) IN
        EnableReturn([s1 EXCEPT !.tmp[s.cpu] = s1.sem.value], "SUCCESS"))
       : s \in {s_}})

(***************************************************************************)
(* Read-write lock (rwlock.c).  obs.rd and obs.wr are the sets of threads  *)
(* (stacks) between a successful read or write lock and its unlock.        *)
(***************************************************************************)
\* a read lock that waits for the writer only, not for pending writers
rdlock_nopref(s_, self) ==
    The({
       (IF s.rw.writer # 0
        THEN block_on(s, self, ReadQ, "rdlock_resume")
        ELSE EnableReturn([s EXCEPT !.rw.readers = @ + 1, !.obs.rd = @ \cup {s.cpu}],
                          "SUCCESS"))
       : s \in {s_}})

\* rwlock.c:141-160, from the head of the loop
rdlock_loop(s_, self) ==
    The({
       (IF s.rw.writer # 0 \/ s.rw.pending_writers > 0
        THEN block_on(s, self, ReadQ, "rdlock_resume")
        ELSE EnableReturn([s EXCEPT !.rw.readers = @ + 1, !.obs.rd = @ \cup {s.cpu}],
                          "SUCCESS"))
       : s \in {s_}})

uthread_rwlock_rdlock(s_) ==
    The({
       (LET s1 == preemption_disable(s) IN rdlock_loop(s1, s1.current))
       : s \in {s_}})

uthread_rwlock_tryrdlock(s_) ==
    The({
       (LET s1 == preemption_disable(s) IN
        IF s1.rw.writer # 0 \/ s1.rw.pending_writers > 0 THEN EnableReturn(s1, "EBUSY")
        ELSE EnableReturn([s1 EXCEPT !.rw.readers = @ + 1, !.obs.rd = @ \cup {s.cpu}],
                          "SUCCESS"))
       : s \in {s_}})

wrlock_acquire(s_, self) ==
    The({
       (EnableReturn([s EXCEPT !.rw.pending_writers = @ - 1, !.rw.writer = 1,
                               !.rw.writer_owner = self, !.obs.wr = @ \cup {s.cpu}],
                     "SUCCESS"))
       : s \in {s_}})

\* a write lock that does not wait for readers and writer to leave
wrlock_unchecked(s_, self) ==
    The({
       (wrlock_acquire(s, self))
       : s \in {s_}})

\* rwlock.c:220-243, from the head of the loop
wrlock_loop(s_, self) ==
    The({
       (IF s.rw.readers > 0 \/ s.rw.writer # 0
        THEN block_on(s, self, WriteQ, "wrlock_resume")
        ELSE wrlock_acquire(s, self))
       : s \in {s_}})

uthread_rwlock_wrlock(s_) ==
    The({
       (LET s1 == [preemption_disable(s) EXCEPT !.rw.pending_writers = @ + 1]
        IN  wrlock_loop(s1, s1.current))
       : s \in {s_}})

uthread_rwlock_trywrlock(s_) ==
    The({
       (LET s1 == preemption_disable(s) IN
        IF s1.rw.readers > 0 \/ s1.rw.writer # 0 THEN EnableReturn(s1, "EBUSY")
        ELSE EnableReturn([s1 EXCEPT !.rw.writer = 1, !.rw.writer_owner = s1.current,
                                     !.obs.wr = @ \cup {s.cpu}],
                          "SUCCESS"))
       : s \in {s_}})

uthread_rwlock_unlock(s_) ==
    The({
       (LET s1 == preemption_disable(s)
            self == s1.current
        IN  IF s1.rw.writer # 0
            THEN IF s1.rw.writer_owner # self THEN EnableReturn(s1, "EPERM")
                 ELSE LET s2 == [s1 EXCEPT !.rw.writer = 0, !.rw.writer_owner = NULL,
                                           !.obs.wr = @ \ {s.cpu}]
                      IN  EnableReturn(IF ~wait_queue_empty(s2, WriteQ)
                                       THEN wait_queue_wake_one(s2, WriteQ)
                                       ELSE wait_queue_wake_all(s2, ReadQ),
                                       "SUCCESS")
            ELSE IF s1.rw.readers > 0
            THEN LET s2 == [s1 EXCEPT !.rw.readers = @ - 1, !.obs.rd = @ \ {s.cpu}]
                 IN  EnableReturn(IF s2.rw.readers = 0 /\ ~wait_queue_empty(s2, WriteQ)
                                  THEN wait_queue_wake_one(s2, WriteQ)
                                  ELSE s2,
                                  "SUCCESS")
            ELSE EnableReturn(s1, "EPERM"))
       : s \in {s_}})

(***************************************************************************)
(* Actions: one per code segment.                                          *)
(***************************************************************************)
\* the time since the last tick that the handler measures (timer.c): under
\* CFS 1 ms or 2 ms, which on_tick adds to the vruntime of a running thread
\* that is below MaxTicksNs; under the other policies only whether it uses
\* up the slice
MaxTicksNs == 1000000

ElapsedNs == {U64(CFS_MIN_GRANULARITY_NS), U64(2 * CFS_MIN_GRANULARITY_NS)}

TickElapsed == IF rq.ops = "cfs" THEN ElapsedNs ELSE BOOLEAN

TickBounded ==
    rq.ops = "cfs" /\ current \in DOMAIN tcb
        => U64Lt(tcb[current].vruntime, U64(MaxTicksNs))

\* SIGALRM is delivered: possible wherever the running context leaves it open.
TimerSignal ==
    /\ Running
    /\ g_scheduler.initialized
    /\ ~mask
    /\ TickBounded
    /\ \E e \in TickElapsed :
           Commit(The({
                     (IF r.cpu = cpu /\ ~r.crashed /\ TopOf(r).l = "handler_ret"
                      THEN sigreturn(r) ELSE r)
                     : r \in {timer_signal_handler(St, e)}}))

\* the handler returns after the preempted thread was dispatched again
HandlerReturn == At("handler_ret") /\ Commit(sigreturn(St))

\* scheduler.c:211-217, the swap itself
SchedSwitch ==
    /\ At("sched_switch")
    /\ Commit(context_switch_to(Pop(St), Top.a, Top.b))

\* timer.c:188-199
PreemptionEnablePending ==
    /\ At("pe_unblocked")
    /\ \E e \in TickElapsed : Commit(preemption_enable_pending(St, e))

EntryWrapper == At("entry") /\ Commit(context_entry_wrapper(St))

\* uthread_exit's scheduler_schedule() returned: UTHREAD_ASSERT(0) aborts
ExitReturned == At("exit_unreachable") /\ Commit([St EXCEPT !.crashed = TRUE])

OpCreate == AtUser("create") /\ Commit(uthread_create(Call, Arg, FALSE))

\* uthread_attr_setpriority(&attr, p); uthread_create(&t, &attr, ...)
OpCreateAttr ==
    AtUser("create_attr") /\ Commit(uthread_create_attr(Call, Arg[1], FALSE, Arg[2]))

\* uthread_attr_setdetachstate(&attr, UTHREAD_CREATE_DETACHED); uthread_create
OpCreateDetached ==
    AtUser("create_detached") /\ Commit(uthread_create(Call, Arg, TRUE))

\* uthread_join on a handle whose TCB thread_free has released: the reads of
\* t->detached, t->joiner and t->exited find the old values (OpJoin) or the
\* access faults
JoinDangling ==
    /\ AtUser("join")
    /\ tcb[Arg].mem = "freed"
    /\ Commit([St EXCEPT !.crashed = TRUE])

\* uthread_create with calloc or the stack allocation failing
OpCreateNomem ==
    /\ AtUser("create")
    /\ \E failing \in {"tcb", "stack"} : Commit(uthread_create_nomem(Call, Arg, failing))

\* if (ret == 0) uthread_join(threads[i], NULL);
OpJoinCreated ==
    /\ AtUser("join_created")
    /\ IF Arg \in obs.handle
       THEN Commit(uthread_join(Call, Arg))
       ELSE Commit(SetTop(St, Fr("user", Top.a + 1, NULL)))

OpInit == AtUser("init") /\ Commit(uthread_init(Call, Arg))

\* uthread_shutdown() called by main
OpShutdown == AtUser("shutdown") /\ cpu = Main /\ Commit(uthread_shutdown(Call))

OpJoin == AtUser("join") /\ Commit(uthread_join(Call, Arg))

JoinResume == At("join_resume") /\ Commit(join_loop(St, Top.a, Top.b))

OpDetach == AtUser("detach") /\ Commit(uthread_detach(Call, Arg))

OpYield == AtUser("yield") /\ Commit(uthread_yield(Call))

YieldResume == At("yield_resume") /\ Commit(EnableReturn(St, "SUCCESS"))

\* return from the start routine (context.c:32-35) or a call of uthread_exit
\* (*counter)++ on the caller's own counter
OpCount ==
    /\ AtUser("count")
    /\ Commit([SetTop(St, Fr("user", Top.a + 1, NULL)) EXCEPT !.tmp[cpu] = @ + 1])

OpSleep == AtUser("sleep") /\ Commit(uthread_sleep(Call, Arg))

\* uthread_yield() has returned into the loop of uthread_sleep
SleepLoop == At("sleep_loop") /\ Commit(sleep_loop(St))

OpExit ==
    /\ (AtUser("exit") \/ AtUser("return"))
    /\ cpu # Main
    /\ Commit(uthread_exit(Call, Arg))

\* uthread_exit of a detached thread: thread_free(self) unmaps the stack the
\* thread is executing on when the stack came from mmap (uthread.c:375-378,
\* 621-630) and the return from munmap faults; with the aligned_alloc
\* fallback of thread_setup_stack the memory is only released (OpExit)
ExitUnmapped ==
    /\ (AtUser("exit") \/ AtUser("return"))
    /\ cpu # Main
    /\ tcb[cpu].detached
    /\ Commit([exit_wake(Call, Arg) EXCEPT !.crashed = TRUE])

OpMutexInit == AtUser("mutex_init") /\ Commit(uthread_mutex_init(Call, Arg))

OpMutexLock == AtUser("lock") /\ Commit(uthread_mutex_lock(Call))

MutexLockSched ==
    /\ At("mutex_lock_sched")
    /\ Commit(scheduler_schedule(SetTop(St, Fr("mutex_lock_resume", Top.a, NULL))))

\* the scheduler_schedule() of uthread_mutex_lock in two segments: up to
\* in_scheduler = true (scheduler.c:176-177), and the rest of it
MutexLockSchedEnter ==
    /\ At("mutex_lock_sched")
    /\ Commit(SetTop([St EXCEPT !.in_scheduler = TRUE],
                     Fr("mutex_lock_sched_entered", Top.a, NULL)))

MutexLockSchedRest ==
    /\ At("mutex_lock_sched_entered")
    /\ Commit(scheduler_schedule(SetTop(St, Fr("mutex_lock_resume", Top.a, NULL))))

MutexLockResume ==
    /\ At("mutex_lock_resume")
    /\ Commit(mutex_lock_loop(preemption_disable(St), Top.a))

OpMutexUnlock ==
    /\ AtUser("unlock")
    /\ Commit(uthread_mutex_unlock([Call EXCEPT !.obs.cs = @ \ {cpu},
                                                 !.obs.cwret = @ \ {cpu}]))

\* g_shared_counter++ is a load and a store
OpRead == AtUser("read") /\ Commit([Call EXCEPT !.tmp[cpu] = counter, !.stk[cpu] = SubSeq(@, 1, Len(@) - 1)])

OpWrite == AtUser("write") /\ Commit([Call EXCEPT !.counter = tmp[cpu] + 1, !.stk[cpu] = SubSeq(@, 1, Len(@) - 1)])

\* while (!g_signal_received) uthread_cond_wait(&g_cond, &g_mutex);
\* the user frame stays on the loop until the predicate holds
OpCondWait ==
    /\ AtUser("while_cond_wait")
    /\ Commit(IF g_signal_received = 0
              THEN uthread_cond_wait(Push(St, Fr("lib", NULL, NULL)))
              ELSE SetTop(St, Fr("user", Top.a + 1, NULL)))

CondWaitSched ==
    /\ At("cond_wait_sched")
    /\ Commit(scheduler_schedule(SetTop(St, Fr("cond_wait_resume", Top.a, NULL))))

CondWaitResume ==
    /\ At("cond_wait_resume")
    /\ Commit(cond_reacquire(preemption_disable(St), Top.a, "SUCCESS"))

CondReacqSched ==
    /\ At("cond_reacq_sched")
    /\ Commit(scheduler_schedule(SetTop(St, Fr("cond_reacq_resume", Top.a, Top.b))))

CondReacqResume ==
    /\ At("cond_reacq_resume")
    /\ Commit(cond_reacquire(preemption_disable(St), Top.a, Top.b))

OpCondTimedWait == AtUser("cond_timedwait") /\ Commit(uthread_cond_timedwait(Call))

CondTimedCheck == At("cond_timed_check") /\ Commit(cond_timed_check(St, Top.a))

CondTimedResume ==
    /\ At("cond_timed_resume")
    /\ Commit(cond_timed_loop(preemption_disable(St), Top.a))

\* for (volatile int i = 0; ; i++) {}: busy work that never calls the library
OpSpin == AtUser("spin") /\ Commit([St EXCEPT !.tmp[cpu] = 1 - @])

OpCondSignal == AtUser("signal") /\ Commit(uthread_cond_signal(Call))

OpCondBroadcast == AtUser("broadcast") /\ Commit(uthread_cond_broadcast(Call))

\* g_signal_received = 1;
OpSetPredicate ==
    /\ AtUser("set")
    /\ Commit(Pop([Call EXCEPT !.g_signal_received = 1]))

(***************************************************************************)
(* The statements of producer() and consumer() (producer_consumer.c).      *)
(***************************************************************************)
BUFFER_SIZE == 1
ITEMS_PER_PRODUCER == 2
NUM_PRODUCERS == 1

\* while (buffer_count >= BUFFER_SIZE) uthread_cond_wait(&buffer_not_full, ...)
OpWaitNotFull ==
    /\ AtUser("wait_not_full")
    /\ Commit(IF buf.buffer_count >= BUFFER_SIZE
              THEN wait_buffer_not_full(Push(St, Fr("lib", NULL, NULL)))
              ELSE SetTop(St, Fr("user", Top.a + 1, NULL)))

\* buffer_count++; items_produced++;
OpPut ==
    /\ AtUser("put")
    /\ Commit([SetTop(St, Fr("user", Top.a + 1, NULL)) EXCEPT
                  !.buf.buffer_count = @ + 1, !.buf.items_produced = @ + 1])

\* while (buffer_count == 0 && done_producing < NUM_PRODUCERS)
\*     uthread_cond_wait(&buffer_not_empty, ...)
OpWaitNotEmpty ==
    /\ AtUser("wait_not_empty")
    /\ Commit(IF buf.buffer_count = 0 /\ buf.done_producing < NUM_PRODUCERS
              THEN uthread_cond_wait(Push(St, Fr("lib", NULL, NULL)))
              ELSE SetTop(St, Fr("user", Top.a + 1, NULL)))

\* if (buffer_count == 0 && done_producing >= NUM_PRODUCERS) { unlock; break; }
OpCheckDone ==
    /\ AtUser("check_done")
    /\ Commit(IF buf.buffer_count = 0 /\ buf.done_producing >= NUM_PRODUCERS
              THEN SetTop(St, Fr("user", Arg, NULL))
              ELSE SetTop(St, Fr("user", Top.a + 1, NULL)))

\* buffer_count--; items_consumed++;
OpGet ==
    /\ AtUser("get")
    /\ Commit([SetTop(St, Fr("user", Top.a + 1, NULL)) EXCEPT
                  !.buf.buffer_count = @ - 1, !.buf.items_consumed = @ + 1])

OpSignalNotFull ==
    AtUser("signal_not_full") /\ Commit(signal_buffer_not_full(Call))

\* done_producing++;
OpDoneProducing ==
    /\ AtUser("done")
    /\ Commit([SetTop(St, Fr("user", Top.a + 1, NULL)) EXCEPT
                  !.buf.done_producing = @ + 1])

\* the end of the body of while (1)
OpLoop == AtUser("loop") /\ Commit(SetTop(St, Fr("user", Arg, NULL)))

\* the monotonic clock reaches the deadline of the timed waits
ClockTick == Running /\ ~clock /\ Commit([St EXCEPT !.clock = TRUE])

\* preemption_enable(); scheduler_schedule(); of a blocking call: the frame
\* below is where the call goes on when the thread is dispatched again
BlockSched == At("block_sched") /\ Commit(scheduler_schedule(Pop(St)))

OpSemInit == AtUser("sem_init") /\ Commit(uthread_sem_init(Call, Arg))

OpSemWait == AtUser("sem_wait") /\ Commit(uthread_sem_wait(Call))

SemWaitResume ==
    /\ At("sem_wait_resume")
    /\ Commit(sem_wait_loop(preemption_disable(St), Top.a))

OpSemTryWait == AtUser("sem_trywait") /\ Commit(uthread_sem_trywait(Call))

OpSemTimedWait == AtUser("sem_timedwait") /\ Commit(uthread_sem_timedwait(Call))

SemTimedResume == At("sem_timed_resume") /\ Commit(sem_timed_resume(St, Top.a))

OpSemPost == AtUser("sem_post") /\ Commit(uthread_sem_post(Call))

OpSemGetValue == AtUser("sem_getvalue") /\ Commit(uthread_sem_getvalue(Call))

OpRdLock == AtUser("rdlock") /\ Commit(uthread_rwlock_rdlock(Call))

RdLockResume ==
    /\ At("rdlock_resume")
    /\ Commit(rdlock_loop(preemption_disable(St), Top.a))

OpTryRdLock == AtUser("tryrdlock") /\ Commit(uthread_rwlock_tryrdlock(Call))

OpWrLock == AtUser("wrlock") /\ Commit(uthread_rwlock_wrlock(Call))

WrLockResume ==
    /\ At("wrlock_resume")
    /\ Commit(wrlock_loop(preemption_disable(St), Top.a))

OpTryWrLock == AtUser("trywrlock") /\ Commit(uthread_rwlock_trywrlock(Call))

\* if (ret == 0) uthread_rwlock_unlock(&g_rwlock); after a try, and the plain
\* unlock after a lock that returned success
OpRwUnlock ==
    /\ AtUser("rwunlock")
    /\ Commit(IF rc[cpu] = "SUCCESS" THEN uthread_rwlock_unlock(Call)
              ELSE SetTop(St, Fr("user", Top.a + 1, NULL)))

(***************************************************************************)
(* Initial states: the library initialised by uthread_init (uthread.c:24), *)
(* the primitives by their init functions, main about to run its program.  *)
(***************************************************************************)
Op(o, x) == [op |-> o, x |-> x]

RECURSIVE Repeat(_, _)
Repeat(seq, n) == IF n = 0 THEN <<>> ELSE seq \o Repeat(seq, n - 1)

CreateAll == [i \in 1..(MaxThreads - 1) |-> Op("create", i + 1)]

JoinAll == [i \in 1..(MaxThreads - 1) |-> Op("join", i + 1)]

NoTcb == [thread_alloc EXCEPT !.mem = "none"]

\* the library after uthread_init(policy), but for the TCBs; overflow is
\* what the build makes of the int overflow in cfs_enqueue
InitRest(policy, m, others, overflow) ==
    /\ ctx = [t \in Tcbs |-> [stk |-> t, live |-> FALSE, mask |-> FALSE]]
    /\ rq = [ops |-> policy, head |-> NULL, tail |-> NULL, count |-> 0,
             queues |-> [i \in Levels |-> NULL], bitmap |-> {}, pcount |-> 0,
             rb_root |-> NULL, rb_leftmost |-> NULL, min_vruntime |-> U64(0),
             cfs_count |-> 0, int_overflow |-> overflow]
    /\ wq = [q \in Queues |-> [head |-> NULL, tail |-> NULL, count |-> 0]]
    /\ current = Main
    /\ in_scheduler = FALSE
    /\ s_preemption_disabled = 0
    /\ s_preempt_pending = FALSE
    /\ cpu = Main
    /\ mask = FALSE
    /\ stk = [t \in Threads |-> IF t = Main THEN <<Fr("user", 1, NULL)>> ELSE <<>>]
    /\ crashed = FALSE
    /\ mutex = m
    /\ cond = [signal_seq |-> 0, waiters |-> CondQ]
    /\ sem = [value |-> 0, waiters |-> SemQ]
    /\ rw = [readers |-> 0, writer |-> 0, writer_owner |-> NULL,
             pending_writers |-> 0]
    /\ clock = FALSE
    /\ counter = 0
    /\ g_signal_received = 0
    /\ tmp = [t \in Threads |-> 0]
    /\ rc = [t \in Threads |-> "NONE"]
    /\ buf = [buffer_count |-> 0, items_produced |-> 0, items_consumed |-> 0,
              done_producing |-> 0,
              buffer_not_full |-> [signal_seq |-> 0, waiters |-> NotFullQ]]
    /\ g_scheduler = [initialized |-> TRUE, all_threads |-> {Main},
                      others |-> others, thread_count |-> others + 1,
                      next_tid |-> others + 2]
    /\ obs = [cs |-> {}, handle |-> {}, joinret |-> [t \in Threads |-> NULL],
              joinblk |-> [t \in Threads |-> FALSE],
              cw |-> <<>>, cwret |-> {}, mw |-> <<>>,
              sw |-> <<>>, posts |-> 0, waits |-> 0,
              rd |-> {}, wr |-> {}]

\* a timeslice is a uint64_t under CFS
InitBuild(policy, m, others, overflow) ==
    /\ tcb = [t \in Tcbs |->
                IF t = Main
                THEN [thread_alloc EXCEPT
                         !.state = "RUNNING", !.tid = 1,
                         !.timeslice_remaining = IF policy = "cfs" THEN U64(0) ELSE 0]
                ELSE IF t = Idle THEN thread_alloc
                ELSE NoTcb]
    /\ InitRest(policy, m, others, overflow)

\* the library after uthread_init(policy), with others further threads
\* registered that the program does not name (blocked throughout)
InitRegistry(policy, m, others) == InitBuild(policy, m, others, "wraps")

InitSched(policy, m) == InitRegistry(policy, m, 0)

\* the mutex as uthread_mutex_init(&m, NULL) leaves it (mutex.c:68-95)
InitLibWith(m) == InitSched("rr", m)

InitLib == InitLibWith(MutexInitialised("NORMAL"))

Common ==
    \/ TimerSignal
    \/ HandlerReturn
    \/ SchedSwitch
    \/ PreemptionEnablePending
    \/ EntryWrapper
    \/ OpCreate
    \/ OpJoin
    \/ JoinResume
    \/ OpExit

(***************************************************************************)
(* test_mutex_contention / test_mutex_hammer: every worker runs Rounds     *)
(* rounds of lock, counter++, unlock, yield; main creates and joins them.  *)
(***************************************************************************)
MutexWorker ==
    Repeat(<<Op("lock", 0), Op("read", 0), Op("write", 0), Op("unlock", 0),
             Op("yield", 0)>>, Rounds) \o <<Op("return", 0)>>

InitMutex ==
    /\ InitLib
    /\ prog = [t \in Threads |-> IF t = Main THEN CreateAll \o JoinAll
                                 ELSE MutexWorker]

NextMutex ==
    \/ Common
    \/ OpYield
    \/ YieldResume
    \/ OpMutexLock
    \/ MutexLockSched
    \/ MutexLockResume
    \/ OpMutexUnlock
    \/ OpRead
    \/ OpWrite

SpecMutex == InitMutex /\ [][NextMutex]_vars

(***************************************************************************)
(* test_return_value / test_exit: main creates the workers and joins them  *)
(* in turn; a worker yields and calls uthread_exit, or returns from its    *)
(* start routine, with a value of its own.                                 *)
(***************************************************************************)
ExitValue(t) == 10 + t

JoinWorker(t) ==
    IF t % 2 = 0 THEN <<Op("yield", 0), Op("yield", 0), Op("exit", ExitValue(t))>>
    ELSE <<Op("yield", 0), Op("return", ExitValue(t))>>

InitJoin ==
    /\ InitLib
    /\ prog = [t \in Threads |-> IF t = Main THEN CreateAll \o JoinAll
                                 ELSE JoinWorker(t)]

StepJoin ==
    \/ HandlerReturn
    \/ EntryWrapper
    \/ OpCreate
    \/ OpJoin
    \/ JoinResume
    \/ OpExit
    \/ OpYield
    \/ YieldResume

NextJoin == TimerSignal \/ StepJoin

SpecJoin == InitJoin /\ [][NextJoin]_vars

\* The processor keeps executing the running thread, and the timer's period
\* is longer than any one segment: a segment that is ready to run again and
\* again is not preempted every time.  SIGALRM itself may or may not come.
FairJoin ==
    /\ WF_vars(StepJoin)
    /\ SF_vars(HandlerReturn) /\ SF_vars(EntryWrapper) /\ SF_vars(OpCreate)
    /\ SF_vars(OpJoin) /\ SF_vars(JoinResume) /\ SF_vars(OpExit)
    /\ SF_vars(OpYield) /\ SF_vars(YieldResume)

SpecJoinFair == SpecJoin /\ FairJoin

(***************************************************************************)
(* test_yield / test_yield_storm: main creates any number of workers, none *)
(* included, and every thread calls uthread_yield Rounds times in a row.   *)
(***************************************************************************)
YieldProg == Repeat(<<Op("yield", 0)>>, Rounds)

InitYield ==
    /\ InitLib
    /\ \E n \in 0..(MaxThreads - 1) :
           prog = [t \in Threads |->
                     IF t = Main
                     THEN SubSeq(CreateAll, 1, n) \o YieldProg \o SubSeq(JoinAll, 1, n)
                     ELSE YieldProg \o <<Op("return", 0)>>]

StepYield ==
    \/ HandlerReturn
    \/ EntryWrapper
    \/ OpCreate
    \/ OpJoin
    \/ JoinResume
    \/ OpExit
    \/ OpYield
    \/ YieldResume

NextYield == TimerSignal \/ StepYield

SpecYield == InitYield /\ [][NextYield]_vars

(***************************************************************************)
(* test_cond_signal / test_cond_broadcast: the workers lock the mutex and  *)
(* wait for the predicate, the last of them with a timed wait in some      *)
(* runs; main creates them, lets them run, sets the predicate under the    *)
(* mutex and signals once per waiter or broadcasts, then joins them.       *)
(***************************************************************************)
CondWaiter(timed) ==
    <<Op("lock", 0)>>
    \o (IF timed THEN <<Op("cond_timedwait", 0)>> ELSE <<Op("while_cond_wait", 0)>>)
    \o <<Op("unlock", 0), Op("return", 0)>>

CondMain(bcast) ==
    CreateAll \o <<Op("yield", 0), Op("lock", 0), Op("set", 0)>>
    \o (IF bcast THEN <<Op("broadcast", 0)>>
        ELSE [i \in 1..(MaxThreads - 1) |-> Op("signal", 0)])
    \o <<Op("unlock", 0)>> \o JoinAll

InitCond ==
    /\ InitLib
    /\ \E bcast, timed \in BOOLEAN :
           prog = [t \in Threads |->
                     IF t = Main THEN CondMain(bcast)
                     ELSE CondWaiter(timed /\ t = MaxThreads)]

StepCond ==
    \/ Common
    \/ OpYield
    \/ YieldResume
    \/ OpMutexLock
    \/ MutexLockSched
    \/ MutexLockResume
    \/ OpMutexUnlock
    \/ OpCondWait
    \/ CondWaitSched
    \/ CondWaitResume
    \/ CondReacqSched
    \/ CondReacqResume
    \/ OpCondTimedWait
    \/ CondTimedCheck
    \/ CondTimedResume
    \/ OpCondSignal
    \/ OpCondBroadcast
    \/ OpSetPredicate

NextCond == StepCond \/ ClockTick

SpecCond == InitCond /\ [][NextCond]_vars

(***************************************************************************)
(* test_semaphore_producer_consumer: a producer posts Rounds times, with a *)
(* yield after each post, a consumer waits Rounds times (its counter       *)
(* update under the mutex is left out); main creates and joins them.  The  *)
(* semaphore is initialised to 0.                                          *)
(***************************************************************************)
Producer == Repeat(<<Op("sem_post", 0), Op("yield", 0)>>, Rounds) \o <<Op("return", 0)>>

Consumer == Repeat(<<Op("sem_wait", 0)>>, Rounds) \o <<Op("return", 0)>>

InitProdCons ==
    /\ InitLib
    /\ prog = [t \in Threads |->
                 IF t = Main THEN <<Op("sem_init", 0)>> \o CreateAll \o JoinAll
                 ELSE IF t = 2 THEN Producer ELSE Consumer]

StepProdCons ==
    \/ HandlerReturn
    \/ SchedSwitch
    \/ PreemptionEnablePending
    \/ EntryWrapper
    \/ OpCreate
    \/ OpJoin
    \/ JoinResume
    \/ OpExit
    \/ OpYield
    \/ YieldResume
    \/ BlockSched
    \/ OpSemInit
    \/ OpSemWait
    \/ SemWaitResume
    \/ OpSemPost

NextProdCons == TimerSignal \/ StepProdCons

SpecProdCons == InitProdCons /\ [][NextProdCons]_vars

\* as FairJoin: the running thread keeps executing, the timer may or may not
\* fire
FairProdCons ==
    /\ WF_vars(StepProdCons)
    /\ SF_vars(HandlerReturn) /\ SF_vars(SchedSwitch)
    /\ SF_vars(PreemptionEnablePending) /\ SF_vars(EntryWrapper)
    /\ SF_vars(OpCreate) /\ SF_vars(OpJoin) /\ SF_vars(JoinResume)
    /\ SF_vars(OpExit) /\ SF_vars(OpYield) /\ SF_vars(YieldResume)
    /\ SF_vars(BlockSched) /\ SF_vars(OpSemInit) /\ SF_vars(OpSemWait)
    /\ SF_vars(SemWaitResume) /\ SF_vars(OpSemPost)

SpecProdConsFair == SpecProdCons /\ FairProdCons

(***************************************************************************)
(* test_semaphore_basic and the calls it leaves out: the semaphore is set  *)
(* to 0 or 1; one worker posts, the other waits and then waits with a      *)
(* deadline; main tries to take a unit and reads the value, before and     *)
(* after the workers ran.                                                  *)
(***************************************************************************)
InitSem ==
    /\ InitLib
    /\ \E v \in {0, 1} :
           prog = [t \in Threads |->
                     IF t = Main
                     THEN <<Op("sem_init", v)>> \o CreateAll
                          \o <<Op("sem_trywait", 0), Op("sem_getvalue", 0)>>
                          \o JoinAll \o <<Op("sem_getvalue", 0)>>
                     ELSE IF t = 2 THEN Producer
                     ELSE <<Op("sem_wait", 0), Op("sem_timedwait", 0),
                            Op("return", 0)>>]

NextSem ==
    \/ NextProdCons
    \/ OpSemTryWait
    \/ OpSemTimedWait
    \/ SemTimedResume
    \/ OpSemGetValue
    \/ ClockTick

SpecSem == InitSem /\ [][NextSem]_vars

(***************************************************************************)
(* test_rwlock_multiple_readers / test_rwlock_writer_exclusive: every      *)
(* worker is a reader or a writer, with the blocking or the try call, and  *)
(* main takes the write lock between creating and joining them.            *)
(***************************************************************************)
RwWorker(role) ==
    <<Op(role, 0)>>
    \o (IF role \in {"wrlock", "trywrlock"} THEN <<Op("read", 0), Op("write", 0)>>
        ELSE <<Op("read", 0)>>)
    \o <<Op("rwunlock", 0), Op("return", 0)>>

InitRw ==
    /\ InitLib
    /\ \E role \in [Workers -> {"rdlock", "tryrdlock", "wrlock", "trywrlock"}] :
           prog = [t \in Threads |->
                     IF t = Main
                     THEN CreateAll
                          \o <<Op("wrlock", 0), Op("read", 0), Op("write", 0),
                               Op("rwunlock", 0)>>
                          \o JoinAll
                     ELSE RwWorker(role[t])]

NextRw ==
    \/ Common
    \/ BlockSched
    \/ OpRdLock
    \/ RdLockResume
    \/ OpTryRdLock
    \/ OpWrLock
    \/ WrLockResume
    \/ OpTryWrLock
    \/ OpRwUnlock
    \/ OpRead
    \/ OpWrite

SpecRw == InitRw /\ [][NextRw]_vars

(***************************************************************************)
(* test_mutex_recursive, with a second thread: the mutex is RECURSIVE; one *)
(* worker locks it Rounds times and unlocks it Rounds times, the other     *)
(* calls unlock without owning it or locks and unlocks once.               *)
(***************************************************************************)
RecursiveOwner ==
    Repeat(<<Op("lock", 0)>>, Rounds) \o Repeat(<<Op("unlock", 0)>>, Rounds)
    \o <<Op("return", 0)>>

InitRecursive ==
    /\ InitLib
    /\ \E other \in {<<Op("unlock", 0)>>, <<Op("lock", 0), Op("unlock", 0)>>} :
           prog = [t \in Threads |->
                     IF t = Main
                     THEN <<Op("mutex_init", "RECURSIVE")>> \o CreateAll \o JoinAll
                     ELSE IF t = 2 THEN RecursiveOwner
                     ELSE other \o <<Op("return", 0)>>]

NextRecursive ==
    \/ Common
    \/ OpMutexInit
    \/ OpMutexLock
    \/ MutexLockSched
    \/ MutexLockResume
    \/ OpMutexUnlock

SpecRecursive == InitRecursive /\ [][NextRecursive]_vars

(***************************************************************************)
(* An ERRORCHECK mutex: one worker locks it twice and unlocks it twice,    *)
(* the other unlocks it without owning it, before or after a lock and      *)
(* unlock of its own.                                                      *)
(***************************************************************************)
InitErrorCheck ==
    /\ InitLib
    /\ \E other \in {<<Op("unlock", 0)>>,
                      <<Op("unlock", 0), Op("lock", 0), Op("unlock", 0)>>,
                      <<Op("lock", 0), Op("unlock", 0), Op("unlock", 0)>>} :
           prog = [t \in Threads |->
                     IF t = Main
                     THEN <<Op("mutex_init", "ERRORCHECK")>> \o CreateAll \o JoinAll
                     ELSE IF t = 2
                     THEN <<Op("lock", 0), Op("lock", 0), Op("unlock", 0),
                            Op("unlock", 0), Op("return", 0)>>
                     ELSE other \o <<Op("return", 0)>>]

NextErrorCheck ==
    \/ Common
    \/ OpMutexInit
    \/ OpMutexLock
    \/ MutexLockSched
    \/ MutexLockResume
    \/ OpMutexUnlock

SpecErrorCheck == InitErrorCheck /\ [][NextErrorCheck]_vars

(***************************************************************************)
(* test_mutex_contention without the yield: every worker locks and unlocks *)
(* the mutex Rounds times in a row.                                        *)
(***************************************************************************)
InitFifo ==
    /\ InitLib
    /\ prog = [t \in Threads |->
                 IF t = Main THEN CreateAll \o JoinAll
                 ELSE Repeat(<<Op("lock", 0), Op("unlock", 0)>>, Rounds)
                      \o <<Op("return", 0)>>]

NextFifo ==
    \/ Common
    \/ OpMutexLock
    \/ MutexLockSched
    \/ MutexLockResume
    \/ OpMutexUnlock

SpecFifo == InitFifo /\ [][NextFifo]_vars

(***************************************************************************)
(* test_mutex_contention without the yield, with the scheduler_schedule()  *)
(* of the blocking lock in two segments, so that SIGALRM also arrives      *)
(* while in_scheduler is set.                                              *)
(***************************************************************************)
StepHandler ==
    \/ HandlerReturn
    \/ SchedSwitch
    \/ PreemptionEnablePending
    \/ EntryWrapper
    \/ OpCreate
    \/ OpJoin
    \/ JoinResume
    \/ OpExit
    \/ OpMutexLock
    \/ MutexLockSchedEnter
    \/ MutexLockSchedRest
    \/ MutexLockResume
    \/ OpMutexUnlock

NextHandler == TimerSignal \/ StepHandler

SpecHandler == InitFifo /\ [][NextHandler]_vars

(***************************************************************************)
(* The programs of SpecFifo on a mutex declared with                       *)
(* UTHREAD_MUTEX_INITIALIZER, side by side with the same programs on a     *)
(* mutex set up by uthread_mutex_init.                                     *)
(***************************************************************************)
InitStatic ==
    /\ \E m \in {UTHREAD_MUTEX_INITIALIZER, MutexInitialised("NORMAL")} :
           InitLibWith(m)
    /\ prog = [t \in Threads |->
                 IF t = Main THEN CreateAll \o JoinAll
                 ELSE Repeat(<<Op("lock", 0), Op("unlock", 0)>>, Rounds)
                      \o <<Op("return", 0)>>]

StepStatic ==
    \/ HandlerReturn
    \/ SchedSwitch
    \/ PreemptionEnablePending
    \/ EntryWrapper
    \/ OpCreate
    \/ OpJoin
    \/ JoinResume
    \/ OpExit
    \/ OpMutexLock
    \/ MutexLockSched
    \/ MutexLockResume
    \/ OpMutexUnlock

NextStatic == TimerSignal \/ StepStatic

SpecStatic == InitStatic /\ [][NextStatic]_vars

\* as FairJoin: the running thread keeps executing, the timer may or may not
\* fire
FairStatic ==
    /\ WF_vars(StepStatic)
    /\ SF_vars(HandlerReturn) /\ SF_vars(SchedSwitch)
    /\ SF_vars(PreemptionEnablePending) /\ SF_vars(EntryWrapper)
    /\ SF_vars(OpCreate) /\ SF_vars(OpJoin) /\ SF_vars(JoinResume)
    /\ SF_vars(OpExit) /\ SF_vars(OpMutexLock) /\ SF_vars(MutexLockSched)
    /\ SF_vars(MutexLockResume) /\ SF_vars(OpMutexUnlock)

SpecStaticFair == SpecStatic /\ FairStatic

(***************************************************************************)
(* Timed waits that nobody ends: one worker waits on the condition         *)
(* variable with a deadline, holding the mutex nobody else takes, the      *)
(* other waits on the semaphore, which stays at 0, with a deadline; main   *)
(* keeps running busy work.  The deadline passes at any moment.  No state  *)
(* of this scenario has a thread back from the scheduler_schedule() of a   *)
(* timed wait (cond_timed_resume, sem_timed_resume) or a tick left pending *)
(* by preemption_enable, so those continuations are not among the steps.   *)
(***************************************************************************)
InitTimed ==
    /\ InitLib
    /\ prog = [t \in Threads |->
                 IF t = Main THEN CreateAll \o <<Op("spin", 0)>>
                 ELSE IF t = 2 THEN CondWaiter(TRUE)
                 ELSE <<Op("sem_timedwait", 0), Op("return", 0)>>]

StepTimed ==
    \/ HandlerReturn
    \/ SchedSwitch
    \/ EntryWrapper
    \/ OpCreate
    \/ OpExit
    \/ OpSpin
    \/ OpMutexLock
    \/ OpMutexUnlock
    \/ OpCondTimedWait
    \/ CondTimedCheck
    \/ OpSemTimedWait
    \/ BlockSched

NextTimed == TimerSignal \/ ClockTick \/ StepTimed

SpecTimed == InitTimed /\ [][NextTimed]_vars

\* the running thread keeps executing, the interval timer keeps firing
\* and the monotonic clock advances
FairTimed ==
    /\ WF_vars(StepTimed)
    /\ WF_vars(ClockTick)
    /\ SF_vars(TimerSignal)
    /\ SF_vars(HandlerReturn) /\ SF_vars(SchedSwitch) /\ SF_vars(EntryWrapper)
    /\ SF_vars(OpCreate) /\ SF_vars(OpExit) /\ SF_vars(OpSpin)
    /\ SF_vars(OpMutexLock) /\ SF_vars(OpMutexUnlock)
    /\ SF_vars(OpCondTimedWait) /\ SF_vars(CondTimedCheck)
    /\ SF_vars(OpSemTimedWait) /\ SF_vars(BlockSched)

SpecTimedFair == SpecTimed /\ FairTimed

(***************************************************************************)
(* Timed waits that race with a signal and a post: the workers of          *)
(* SpecTimed, and main signals the condition variable under the mutex and  *)
(* posts the semaphore once before it joins them.                          *)
(***************************************************************************)
InitTimedOut ==
    /\ InitLib
    /\ prog = [t \in Threads |->
                 IF t = Main
                 THEN CreateAll
                      \o <<Op("lock", 0), Op("signal", 0), Op("unlock", 0),
                           Op("sem_post", 0)>>
                      \o JoinAll
                 ELSE IF t = 2 THEN CondWaiter(TRUE)
                 ELSE <<Op("sem_timedwait", 0), Op("return", 0)>>]

\* no tick is ever deferred in this scenario (s_preempt_pending stays
\* false), so the deferred-tick step of Common is left out
NextTimedOut ==
    \/ TimerSignal
    \/ HandlerReturn
    \/ SchedSwitch
    \/ EntryWrapper
    \/ OpCreate
    \/ OpJoin
    \/ JoinResume
    \/ OpExit
    \/ ClockTick
    \/ BlockSched
    \/ OpMutexLock
    \/ MutexLockSched
    \/ MutexLockResume
    \/ OpMutexUnlock
    \/ OpCondTimedWait
    \/ CondTimedCheck
    \/ CondTimedResume
    \/ CondReacqSched
    \/ CondReacqResume
    \/ OpCondSignal
    \/ OpSemTimedWait
    \/ SemTimedResume
    \/ OpSemPost

SpecTimedOut == InitTimedOut /\ [][NextTimedOut]_vars

(***************************************************************************)
(* test_sleep and test_detached: main creates none, one or two threads     *)
(* that sleep and return, sleeps itself and joins them; the sleep is of 0  *)
(* ms or longer.  The clock reaches the target at any moment.              *)
(***************************************************************************)
InitSleep ==
    /\ InitLib
    /\ \E n \in 0..(MaxThreads - 1), ms \in {0, 1} :
           prog = [t \in Threads |->
                     IF t = Main
                     THEN SubSeq(CreateAll, 1, n) \o <<Op("sleep", ms)>>
                          \o SubSeq(JoinAll, 1, n)
                     ELSE <<Op("sleep", ms), Op("return", 0)>>]

StepSleep ==
    \/ HandlerReturn
    \/ EntryWrapper
    \/ OpCreate
    \/ OpJoin
    \/ JoinResume
    \/ OpExit
    \/ OpSleep
    \/ SleepLoop
    \/ YieldResume

NextSleep == TimerSignal \/ ClockTick \/ StepSleep

SpecSleep == InitSleep /\ [][NextSleep]_vars

\* the running thread keeps executing and the monotonic clock advances; the
\* timer may or may not fire
FairSleep ==
    /\ WF_vars(StepSleep)
    /\ WF_vars(ClockTick)
    /\ SF_vars(HandlerReturn) /\ SF_vars(EntryWrapper)
    /\ SF_vars(OpCreate) /\ SF_vars(OpJoin) /\ SF_vars(JoinResume)
    /\ SF_vars(OpExit) /\ SF_vars(OpSleep) /\ SF_vars(SleepLoop)
    /\ SF_vars(YieldResume)

SpecSleepFair == SpecSleep /\ FairSleep

(***************************************************************************)
(* test_rr_fairness: main creates one or more threads that each run Rounds *)
(* iterations of counter++ and uthread_yield, and joins them.              *)
(***************************************************************************)
FairnessThread ==
    Repeat(<<Op("count", 0), Op("yield", 0)>>, Rounds) \o <<Op("return", 0)>>

InitRR ==
    /\ InitLib
    /\ \E n \in 1..(MaxThreads - 1) :
           prog = [t \in Threads |->
                     IF t = Main THEN SubSeq(CreateAll, 1, n) \o SubSeq(JoinAll, 1, n)
                     ELSE FairnessThread]

StepRR ==
    \/ HandlerReturn
    \/ EntryWrapper
    \/ OpCreate
    \/ OpJoin
    \/ JoinResume
    \/ OpExit
    \/ OpCount
    \/ OpYield
    \/ YieldResume

NextRR == TimerSignal \/ StepRR

SpecRR == InitRR /\ [][NextRR]_vars

\* as FairJoin: the running thread keeps executing, the timer may or may not
\* fire
FairRR ==
    /\ WF_vars(StepRR)
    /\ SF_vars(HandlerReturn) /\ SF_vars(EntryWrapper)
    /\ SF_vars(OpCreate) /\ SF_vars(OpJoin) /\ SF_vars(JoinResume)
    /\ SF_vars(OpExit) /\ SF_vars(OpCount) /\ SF_vars(OpYield)
    /\ SF_vars(YieldResume)

SpecRRFair == SpecRR /\ FairRR

(***************************************************************************)
(* producer_consumer.c: NUM_PRODUCERS producers put ITEMS_PER_PRODUCER     *)
(* items each into a buffer of BUFFER_SIZE slots and one consumer takes    *)
(* them out, under buffer_mutex with buffer_not_full and buffer_not_empty  *)
(* (cond); main creates and joins them.                                    *)
(***************************************************************************)
producer ==
    Repeat(<<Op("lock", 0), Op("wait_not_full", 0), Op("put", 0),
             Op("signal", 0), Op("unlock", 0), Op("yield", 0)>>,
           ITEMS_PER_PRODUCER)
    \o <<Op("lock", 0), Op("done", 0), Op("broadcast", 0), Op("unlock", 0),
         Op("return", 0)>>

consumer ==
    <<Op("lock", 0), Op("wait_not_empty", 0), Op("check_done", 9),
      Op("get", 0), Op("signal_not_full", 0), Op("unlock", 0), Op("yield", 0),
      Op("loop", 1), Op("unlock", 0), Op("return", 0)>>

InitBuffer ==
    /\ InitLib
    /\ prog = [t \in Threads |->
                 IF t = Main THEN CreateAll \o JoinAll
                 ELSE IF t <= 1 + NUM_PRODUCERS THEN producer
                 ELSE consumer]

StepBuffer ==
    \/ HandlerReturn
    \/ SchedSwitch
    \/ PreemptionEnablePending
    \/ EntryWrapper
    \/ OpCreate
    \/ OpJoin
    \/ JoinResume
    \/ OpExit
    \/ OpYield
    \/ YieldResume
    \/ OpMutexLock
    \/ MutexLockSched
    \/ MutexLockResume
    \/ OpMutexUnlock
    \/ CondWaitSched
    \/ CondWaitResume
    \/ CondReacqSched
    \/ CondReacqResume
    \/ OpCondSignal
    \/ OpCondBroadcast
    \/ OpWaitNotFull
    \/ OpPut
    \/ OpWaitNotEmpty
    \/ OpCheckDone
    \/ OpGet
    \/ OpSignalNotFull
    \/ OpDoneProducing
    \/ OpLoop

NextBuffer == TimerSignal \/ StepBuffer

SpecBuffer == InitBuffer /\ [][NextBuffer]_vars

\* the steps of the program and of the library calls it makes, the return
\* from the signal handler aside
ProgressBuffer == StepBuffer /\ ~At("handler_ret")

\* the running thread keeps executing, and ticks do not keep it from ever
\* getting past the statement it is at; the timer may or may not fire
FairBuffer == WF_vars(StepBuffer) /\ SF_vars(ProgressBuffer)

SpecBufferFair == SpecBuffer /\ FairBuffer

(***************************************************************************)
(* test_detached and the error returns of uthread_join: main creates a     *)
(* thread, detached or joinable, and a second thread that joins the first; *)
(* main joins itself, the first thread and the second.                     *)
(***************************************************************************)
simple_thread == <<Op("count", 0), Op("return", 0)>>

InitJoinErrors ==
    /\ InitLib
    /\ \E det \in BOOLEAN :
           prog = [t \in Threads |->
                     IF t = Main
                     THEN <<Op(IF det THEN "create_detached" ELSE "create", 2),
                            Op("create", 3), Op("join", Main), Op("join", 2),
                            Op("join", 3)>>
                     ELSE IF t = 2 THEN simple_thread
                     ELSE <<Op("join", 2), Op("return", 0)>>]

StepJoinErrors ==
    \/ HandlerReturn
    \/ EntryWrapper
    \/ OpCreate
    \/ OpCreateDetached
    \/ OpJoin
    \/ JoinDangling
    \/ JoinResume
    \/ OpExit
    \/ ExitUnmapped
    \/ OpCount

NextJoinErrors == TimerSignal \/ StepJoinErrors

SpecJoinErrors == InitJoinErrors /\ [][NextJoinErrors]_vars

(***************************************************************************)
(* test_detached_thread with a second, joined thread: main creates two     *)
(* threads, detaches the first (which may have exited by then) and joins   *)
(* the second.                                                             *)
(***************************************************************************)
InitDetach ==
    /\ InitLib
    /\ prog = [t \in Threads |->
                 IF t = Main
                 THEN <<Op("create", 2), Op("create", 3), Op("count", 0),
                        Op("detach", 2), Op("join", 3)>>
                 ELSE simple_thread]

StepDetach ==
    \/ HandlerReturn
    \/ EntryWrapper
    \/ OpCreate
    \/ OpDetach
    \/ OpJoin
    \/ JoinResume
    \/ OpExit
    \/ ExitUnmapped
    \/ OpCount

NextDetach == TimerSignal \/ StepDetach

SpecDetach == InitDetach /\ [][NextDetach]_vars

(***************************************************************************)
(* A semaphore at 0 used by every call: one worker waits with a deadline,  *)
(* the other without; main tries to take a unit, posts once and goes on    *)
(* with busy work.  The deadline passes at any moment.  No tick is ever    *)
(* deferred in this scenario, so the deferred-tick step is left out.       *)
(***************************************************************************)
InitSemMix ==
    /\ InitLib
    /\ prog = [t \in Threads |->
                 IF t = Main
                 THEN <<Op("sem_init", 0)>> \o CreateAll
                      \o <<Op("sem_trywait", 0), Op("sem_post", 0), Op("spin", 0)>>
                 ELSE IF t = 2 THEN <<Op("sem_timedwait", 0), Op("return", 0)>>
                 ELSE <<Op("sem_wait", 0), Op("return", 0)>>]

StepSemMix ==
    \/ HandlerReturn
    \/ SchedSwitch
    \/ EntryWrapper
    \/ OpCreate
    \/ OpExit
    \/ OpSpin
    \/ BlockSched
    \/ OpSemInit
    \/ OpSemWait
    \/ SemWaitResume
    \/ OpSemTryWait
    \/ OpSemTimedWait
    \/ SemTimedResume
    \/ OpSemPost

NextSemMix == TimerSignal \/ ClockTick \/ StepSemMix

SpecSemMix == InitSemMix /\ [][NextSemMix]_vars

\* the running thread keeps executing, the interval timer keeps firing and
\* the monotonic clock advances
FairSemMix ==
    /\ WF_vars(StepSemMix)
    /\ WF_vars(ClockTick)
    /\ SF_vars(TimerSignal)

SpecSemMixFair == SpecSemMix /\ FairSemMix

(***************************************************************************)
(* test_cond_signal with a RECURSIVE mutex: the workers lock the mutex and *)
(* wait for the predicate, the last of them with a timed wait; main sets   *)
(* the predicate under the mutex, signals once per waiter and joins them.  *)
(***************************************************************************)
InitRecCond ==
    /\ InitLibWith(MutexInitialised("RECURSIVE"))
    /\ prog = [t \in Threads |->
                 IF t = Main THEN CondMain(FALSE)
                 ELSE CondWaiter(t = MaxThreads)]

NextRecCond ==
    \/ Common
    \/ OpYield
    \/ YieldResume
    \/ OpMutexLock
    \/ MutexLockSched
    \/ MutexLockResume
    \/ OpMutexUnlock
    \/ OpCondWait
    \/ CondWaitSched
    \/ CondWaitResume
    \/ CondReacqSched
    \/ CondReacqResume
    \/ OpCondTimedWait
    \/ CondTimedCheck
    \/ CondTimedResume
    \/ OpCondSignal
    \/ OpSetPredicate
    \/ ClockTick

SpecRecCond == InitRecCond /\ [][NextRecCond]_vars

(***************************************************************************)
(* test_thread_storm at the limit of the registry: all but two or all but  *)
(* three of the UTHREAD_MAX_THREADS slots are taken when main creates two  *)
(* threads and joins those it could create; an allocation may fail.        *)
(***************************************************************************)
short_thread == <<Op("return", 0)>>

InitStorm ==
    /\ \E free \in {2, 3} :
           InitRegistry("rr", MutexInitialised("NORMAL"),
                        UTHREAD_MAX_THREADS - free)
    /\ prog = [t \in Threads |->
                 IF t = Main
                 THEN <<Op("create", 2), Op("create", 3),
                        Op("join_created", 2), Op("join_created", 3)>>
                 ELSE short_thread]

StepStorm ==
    \/ HandlerReturn
    \/ EntryWrapper
    \/ OpCreate
    \/ OpCreateNomem
    \/ OpJoinCreated
    \/ JoinResume
    \/ OpExit

NextStorm == TimerSignal \/ StepStorm

SpecStorm == InitStorm /\ [][NextStorm]_vars

(***************************************************************************)
(* test_rapid_init_shutdown and test_all_schedulers: after a first init    *)
(* main calls init again, then runs Cycles times: create the workers, join *)
(* all of them or all but the last, shutdown, init with a policy.          *)
(***************************************************************************)
Cycles == 2

Policies == {"rr", "priority"}

InitCycles ==
    /\ \E p \in Policies : InitSched(p, MutexInitialised("NORMAL"))
    /\ \E joins \in {JoinAll, SubSeq(JoinAll, 1, Len(JoinAll) - 1)} :
       \E p \in [1..Cycles -> Policies] :
           prog = [t \in Threads |->
                     IF t = Main
                     THEN <<Op("init", p[1])>>
                          \o CreateAll \o joins
                          \o <<Op("shutdown", 0), Op("init", p[1])>>
                          \o CreateAll \o joins
                          \o <<Op("shutdown", 0), Op("shutdown", 0),
                                Op("init", p[2]), Op("init", p[1])>>
                     ELSE short_thread]

StepCycles ==
    \/ HandlerReturn
    \/ EntryWrapper
    \/ OpInit
    \/ OpShutdown
    \/ OpCreate
    \/ OpJoin
    \/ JoinResume
    \/ OpExit

NextCycles == TimerSignal \/ StepCycles

SpecCycles == InitCycles /\ [][NextCycles]_vars

(***************************************************************************)
(* test_priority_basic: under the priority policy main (default priority)  *)
(* creates threads with priorities set through their attributes and joins  *)
(* them; each thread does some work and records itself under a mutex.      *)
(***************************************************************************)
Priorities == {10, 20, 30}

priority_worker_thread ==
    <<Op("count", 0), Op("lock", 0), Op("count", 0), Op("unlock", 0),
      Op("return", 0)>>

InitPriority ==
    /\ InitSched("priority", MutexInitialised("NORMAL"))
    /\ \E pr \in [Workers -> Priorities] :
           prog = [t \in Threads |->
                     IF t = Main
                     THEN [i \in 1..(MaxThreads - 1) |->
                              Op("create_attr", <<i + 1, pr[i + 1]>>)] \o JoinAll
                     ELSE priority_worker_thread]

StepPriority ==
    \/ HandlerReturn
    \/ SchedSwitch
    \/ EntryWrapper
    \/ OpCreateAttr
    \/ OpJoin
    \/ JoinResume
    \/ OpExit
    \/ OpCount
    \/ OpMutexLock
    \/ MutexLockSched
    \/ MutexLockResume
    \/ OpMutexUnlock

NextPriority == TimerSignal \/ StepPriority

SpecPriority == InitPriority /\ [][NextPriority]_vars

(***************************************************************************)
(* Writers against readers: main takes the write lock after creating the   *)
(* workers; each worker takes the lock once, for reading or for writing,   *)
(* and unlocks it.                                                         *)
(***************************************************************************)
InitWriter ==
    /\ InitLib
    /\ \E role \in [Workers -> {"rdlock", "wrlock"}] :
           prog = [t \in Threads |->
                     IF t = Main
                     THEN CreateAll \o <<Op("wrlock", 0), Op("rwunlock", 0)>> \o JoinAll
                     ELSE <<Op(role[t], 0), Op("rwunlock", 0), Op("return", 0)>>]

StepWriter ==
    \/ HandlerReturn
    \/ SchedSwitch
    \/ PreemptionEnablePending
    \/ EntryWrapper
    \/ OpCreate
    \/ OpJoin
    \/ JoinResume
    \/ OpExit
    \/ BlockSched
    \/ OpRdLock
    \/ RdLockResume
    \/ OpWrLock
    \/ WrLockResume
    \/ OpRwUnlock

NextWriter == TimerSignal \/ StepWriter

SpecWriter == InitWriter /\ [][NextWriter]_vars

\* as FairJoin: the running thread keeps executing, the timer may or may not
\* fire
FairWriter ==
    /\ WF_vars(StepWriter)
    /\ SF_vars(HandlerReturn) /\ SF_vars(SchedSwitch)
    /\ SF_vars(PreemptionEnablePending) /\ SF_vars(EntryWrapper)
    /\ SF_vars(OpCreate) /\ SF_vars(OpJoin) /\ SF_vars(JoinResume)
    /\ SF_vars(OpExit) /\ SF_vars(BlockSched)
    /\ SF_vars(OpRdLock) /\ SF_vars(RdLockResume)
    /\ SF_vars(OpWrLock) /\ SF_vars(WrLockResume)
    /\ SF_vars(OpRwUnlock)

SpecWriterFair == SpecWriter /\ FairWriter

(***************************************************************************)
(* Mutual exclusion.  obs.cs is the set of threads (stacks) between a      *)
(* successful uthread_mutex_lock and the matching uthread_mutex_unlock.    *)
(***************************************************************************)
WorkersDone == \A t \in Workers : tcb[t].exited

C2_JoinReturnsExitValue ==
    \A t \in Workers :
        obs.joinret[t] # NULL => tcb[t].exited /\ obs.joinret[t] = ExitValue(t)

\* both orders in one run: one join had to block, another found T exited
C2_Witness ==
    \E t, u \in Workers :
        /\ obs.joinret[t] = ExitValue(t) /\ obs.joinblk[t]
        /\ obs.joinret[u] = ExitValue(u) /\ ~obs.joinblk[u]

\* how often t occurs on the list that starts at h
RECURSIVE Occurrences(_, _, _, _)
Occurrences(s, h, t, fuel) ==
    IF h = NULL \/ fuel = 0 THEN 0
    ELSE (IF h = t THEN 1 ELSE 0) + Occurrences(s, s.tcb[h].next, t, fuel - 1)

OnRunQueue(s, t) == Occurrences(s, s.rq.head, t, 2 * MaxThreads)

Exiting == (AtUser("exit") \/ AtUser("return")) /\ cpu # Main

\* C3: when T exits while A is blocked in uthread_join(T), exit clears
\* A.waiting_on, marks A READY and puts A on the run queue exactly once; and
\* A, once blocked in join, is eventually dispatched and returns success
\* from that join.
C3_JoinWakeUp ==
    /\ [](\A a \in Threads :
             Exiting /\ tcb[current].joiner = a /\ tcb[a].state = "BLOCKED"
             => LET s == exit_wake(Call, Arg) IN
                /\ OnRunQueue(St, a) = 0
                /\ s.tcb[a].waiting_on = NULL
                /\ s.tcb[a].state = "READY"
                /\ OnRunQueue(s, a) = 1)
    /\ \A t \in Workers :
           (obs.joinblk[t] /\ tcb[t].exited)
               ~> (obs.joinret[t] = ExitValue(t) /\ rc[Main] = "SUCCESS")

\* main blocked in a join and was woken by the exit: it has the value
C3_Witness ==
    \E t \in Workers :
        /\ obs.joinblk[t]
        /\ obs.joinret[t] = ExitValue(t)
        /\ rc[Main] = "SUCCESS"
        /\ tcb[Main].waiting_on = NULL

(***************************************************************************)
(* Yield.                                                                  *)
(***************************************************************************)
\* thread t is inside uthread_yield: called, not yet returned
InYield(t) == \E i \in 1..Len(stk[t]) : stk[t][i].l = "yield_resume"

\* C4: a thread that calls uthread_yield is never lost, with any number of
\* other ready threads (none included) and any number of yields in a row:
\* until it returns from yield it is either running or READY on the run
\* queue exactly once, and the process has not faulted under it.
C4_YieldNeverLosesCaller ==
    \A t \in Threads :
        InYield(t) =>
            /\ ~crashed
            /\ cpu = t \/ (tcb[t].state = "READY" /\ OnRunQueue(St, t) = 1)

(***************************************************************************)
(* Condition variable.                                                     *)
(***************************************************************************)
\* how often t occurs on the wait queue of the condition variable
OnCondQueue(s, t) == Occurrences(s, s.wq[CondQ].head, t, 2 * MaxThreads)

\* t has been woken: READY and taken off the wait queue
Woken(s, t) == s.tcb[t].state = "READY" /\ s.tcb[t].blocked_queue = NullQ

\* the threads from h along the next links, h first
RECURSIVE ListFrom(_, _, _)
ListFrom(s, h, fuel) ==
    IF h = NULL \/ fuel = 0 THEN <<>>
    ELSE <<h>> \o ListFrom(s, s.tcb[h].next, fuel - 1)

EndsWith(seq, suffix) ==
    /\ Len(suffix) <= Len(seq)
    /\ SubSeq(seq, Len(seq) - Len(suffix) + 1, Len(seq)) = suffix

\* C5: no lost wake-up.  A thread that entered a wait and released the
\* mutex is found on cond.waiters by any thread that then holds the mutex
\* and signals or broadcasts: it is on the queue, a signal wakes one of the
\* waiters and a broadcast wakes them all, with or without timer ticks.
C5_NoLostWakeUp ==
    /\ \A i \in 1..Len(obs.cw) : OnCondQueue(St, obs.cw[i]) = 1
    /\ AtUser("signal") /\ mutex.owner = cpu /\ obs.cw # <<>>
           => LET s == uthread_cond_signal(Call) IN
              \E i \in 1..Len(obs.cw) :
                  tcb[obs.cw[i]].blocked_queue = CondQ /\ Woken(s, obs.cw[i])
    /\ AtUser("broadcast") /\ mutex.owner = cpu
           => LET s == uthread_cond_broadcast(Call) IN
              \A i \in 1..Len(obs.cw) : Woken(s, obs.cw[i])

\* C6: whenever uthread_cond_wait or uthread_cond_timedwait has returned,
\* with success or timed out, the caller owns the mutex (lock = 1 and
\* owner = caller) and no other thread is between a lock and its unlock.
C6_WaitReturnsOwningMutex ==
    \A t \in obs.cwret :
        /\ rc[t] \in {"SUCCESS", "ETIMEDOUT"}
        /\ mutex.lock = 1
        /\ mutex.owner = t
        /\ obs.cs = {t}

\* a timed wait has returned ETIMEDOUT holding the mutex while another
\* thread, back from its wait, is queued for the mutex
C6_Witness ==
    \E t \in obs.cwret, u \in Threads :
        /\ u # t
        /\ rc[t] = "ETIMEDOUT"
        /\ cpu = t
        /\ tcb[u].blocked_queue = MutexQ
        /\ \E i \in 1..Len(stk[u]) : stk[u][i].l = "cond_reacq_resume"

\* C7: uthread_cond_signal makes READY exactly one waiter, the one that has
\* waited longest, and none when there is no waiter; uthread_cond_broadcast
\* makes READY every waiter, in the order they began to wait; each call adds
\* one to the sequence counter.
C7_SignalBroadcastFifo ==
    /\ AtUser("signal")
           => LET s == uthread_cond_signal(Call) IN
              /\ s.cond.signal_seq = cond.signal_seq + 1
              /\ IF obs.cw = <<>>
                 THEN \A t \in Threads : s.tcb[t].state = tcb[t].state
                 ELSE /\ Woken(s, Head(obs.cw))
                      /\ EndsWith(ListFrom(s, s.rq.head, 2 * MaxThreads),
                                  <<Head(obs.cw)>>)
                      /\ \A t \in Threads \ {Head(obs.cw)} :
                             s.tcb[t].state = tcb[t].state
    /\ AtUser("broadcast")
           => LET s == uthread_cond_broadcast(Call) IN
              /\ s.cond.signal_seq = cond.signal_seq + 1
              /\ \A i \in 1..Len(obs.cw) : Woken(s, obs.cw[i])
              /\ EndsWith(ListFrom(s, s.rq.head, 2 * MaxThreads), obs.cw)

(***************************************************************************)
(* Semaphore.                                                              *)
(***************************************************************************)
\* main has called uthread_sem_init(&g_sem, 0, SemInitial)
SemInitialised == stk[Main][1].a > 1

SemInitial == prog[Main][1].x

\* C8: semaphore accounting.  In every interleaving of post, wait, trywait
\* and timedwait on a semaphore initialised to V the value is never
\* negative and equals V + P - W for P completed posts and W wait, trywait
\* or timedwait calls that returned success; uthread_sem_getvalue returns
\* that number; a call that returns EAGAIN or ETIMEDOUT leaves the value as
\* it was.
C8_SemaphoreAccounting ==
    /\ [](SemInitialised
             => /\ sem.value >= 0
                /\ sem.value = SemInitial + obs.posts - obs.waits)
    /\ [](AtUser("sem_getvalue")
             => uthread_sem_getvalue(Call).tmp[cpu]
                    = SemInitial + obs.posts - obs.waits)
    /\ [][\A t \in Threads :
              rc'[t] # rc[t] /\ rc'[t] \in {"EAGAIN", "ETIMEDOUT"}
                  => sem'.value = sem.value]_vars

\* main has read the value after all posts, at least one successful wait
\* and a timed-out timedwait, and got V + P - W
C8_Witness ==
    /\ Len(stk[Main]) = 1
    /\ stk[Main][1].a > Len(prog[Main])
    /\ obs.posts = Rounds
    /\ obs.waits >= 1
    /\ rc[MaxThreads] = "ETIMEDOUT"
    /\ tmp[Main] = SemInitial + obs.posts - obs.waits

\* thread t is inside uthread_sem_wait: called, not yet returned
InSemWait(t) ==
    \E i \in 1..Len(stk[t]) : stk[t][i].l \in {"sem_wait_resume"}

\* C9: semaphore progress.  A post with threads queued on the semaphore
\* wakes the one that has waited longest; with as many posts as calls of
\* uthread_sem_wait every uthread_sem_wait returns, and the producer that
\* posts Rounds times and the consumer that waits Rounds times both
\* terminate.
C9_SemaphoreProgress ==
    /\ [](AtUser("sem_post") /\ obs.sw # <<>>
             => Woken(uthread_sem_post(Call), Head(obs.sw)))
    /\ \A t \in Workers : InSemWait(t) ~> ~InSemWait(t)
    /\ <>(\A t \in Workers : tcb[t].exited)

(***************************************************************************)
(* Read-write lock.                                                        *)
(***************************************************************************)
\* C10: read/write exclusion.  In every reachable state writer = 1 implies
\* readers = 0, at most one thread holds the write lock, readers >= 0, and
\* threads hold read locks, however many, only while no thread holds the
\* write lock.
C10_ReadWriteExclusion ==
    /\ rw.readers >= 0
    /\ rw.writer \in {0, 1}
    /\ rw.writer = 1 => rw.readers = 0
    /\ Cardinality(obs.wr) <= 1
    /\ obs.wr # {} => rw.writer = 1 /\ obs.rd = {}
    /\ obs.rd # {} => rw.writer = 0 /\ rw.readers = Cardinality(obs.rd)

\* two readers hold the lock at once while main waits for the write lock
C10_Witness ==
    /\ Cardinality(obs.rd) = 2
    /\ rw.readers = 2
    /\ rw.pending_writers = 1
    /\ tcb[Main].blocked_queue = WriteQ

\* C11: writer preference.  While pending_writers > 0 no step of any thread
\* adds a reader: the readers count does not increase and no thread enters
\* the set of read-lock holders; a call of rdlock made then blocks the caller
\* on the read queue, and a call of tryrdlock made then returns busy.
C11_WriterPreference ==
    /\ [](AtUser("rdlock") /\ rw.pending_writers > 0 =>
             LET s == uthread_rwlock_rdlock(Call)
             IN  /\ s.rw.readers = rw.readers
                 /\ s.obs.rd = obs.rd
                 /\ s.tcb[current].state = "BLOCKED"
                 /\ s.tcb[current].blocked_queue = ReadQ)
    /\ [](AtUser("tryrdlock") /\ rw.pending_writers > 0 =>
             LET s == uthread_rwlock_tryrdlock(Call)
             IN  /\ s.rw.readers = rw.readers
                 /\ s.obs.rd = obs.rd
                 /\ s.rc[cpu] = "EBUSY")
    /\ [][rw.pending_writers > 0 =>
             rw.readers' <= rw.readers /\ obs.rd' \subseteq obs.rd]_vars

\* main waits for the write lock that one worker holds for reading, and the
\* other worker has blocked on the read queue behind main
C11_Witness ==
    /\ rw.pending_writers = 1
    /\ rw.writer = 0
    /\ tcb[Main].blocked_queue = WriteQ
    /\ obs.rd # {}
    /\ \E t \in Workers : tcb[t].blocked_queue = ReadQ /\ t \notin obs.rd

\* thread t is inside uthread_rwlock_wrlock: it has called and blocked, and
\* has not acquired yet
InWrLock(t) ==
    \E i \in 1..Len(stk[t]) : stk[t][i].l = "wrlock_resume"

\* C12: no writer starvation.  Every thread that has called
\* uthread_rwlock_wrlock and waits in it eventually holds the write lock,
\* whatever the readers and the other writers do (each of them locks once and
\* unlocks, so every holder unlocks and there is no endless read churn).
C12_NoWriterStarvation ==
    \A t \in Threads : InWrLock(t) ~> (t \in obs.wr)

(***************************************************************************)
(* Mutex types and queueing.  obs.mw lists, in the order in which they      *)
(* first blocked, the threads that blocked in uthread_mutex_lock and have  *)
(* not acquired the mutex yet.                                             *)
(***************************************************************************)
\* the owner's lock and unlock calls count the recursion depth up and down,
\* the mutex staying held by the owner while the depth is above zero, and a
\* lock called by another thread meanwhile does not acquire
RecursiveOwnerCounts ==
    /\ AtUser("lock") /\ mutex.lock = 1 /\ mutex.owner = current =>
          LET s == uthread_mutex_lock(Call)
          IN  /\ s.mutex.lock = 1 /\ s.mutex.owner = current
              /\ s.mutex.recursion_count = mutex.recursion_count + 1
    /\ AtUser("unlock") /\ mutex.lock = 1 /\ mutex.owner = current =>
          LET s == uthread_mutex_unlock(Call)
          IN  /\ s.mutex.recursion_count = mutex.recursion_count - 1
              /\ IF mutex.recursion_count > 1
                 THEN s.mutex.lock = 1 /\ s.mutex.owner = current
                 ELSE s.mutex.lock = 0 /\ s.mutex.owner = NULL
    /\ AtUser("lock") /\ mutex.lock = 1 /\ mutex.owner # current =>
          LET s == uthread_mutex_lock(Call)
          IN  /\ s.mutex = mutex
              /\ s.tcb[current].state = "BLOCKED"

\* an unlock called by a thread that does not own the held mutex leaves the
\* lock, the owner and the recursion count as they were
NonOwnerUnlockIgnored ==
    AtUser("unlock") /\ mutex.lock = 1 /\ mutex.owner # current =>
        LET s == uthread_mutex_unlock(Call)
        IN  /\ s.mutex.lock = 1
            /\ s.mutex.owner = mutex.owner
            /\ s.mutex.recursion_count = mutex.recursion_count

\* C13: recursive mutex.  An owner that locked a RECURSIVE mutex K times
\* holds it until it has unlocked K times, no other thread acquiring it
\* before, and an unlock by a thread that is not the owner does not release
\* the mutex nor change its owner or recursion count.
C13_RecursiveMutex ==
    mutex.type = "RECURSIVE" => RecursiveOwnerCounts /\ NonOwnerUnlockIgnored

\* C14: FIFO among blocked threads.  Whenever a thread acquires the mutex
\* while threads that blocked in uthread_mutex_lock are still waiting for
\* it, the acquirer is the one of them that blocked first: no thread that
\* called lock later acquires before a thread that blocked earlier.
C14_MutexFifo ==
    [][mutex'.lock = 1 /\ mutex'.owner # mutex.owner /\ obs.mw # <<>>
           => mutex'.owner = Head(obs.mw)]_vars

\* thread t is inside uthread_mutex_lock: it has blocked and not acquired
InLock(t) ==
    \E i \in 1..Len(stk[t]) : stk[t][i].l \in {"mutex_lock_sched", "mutex_lock_resume"}

\* C15: static initializer.  With a mutex set up by UTHREAD_MUTEX_INITIALIZER
\* a thread that blocks on contention is linked into the mutex's wait queue,
\* which is allocated by then, and every thread that blocked in
\* uthread_mutex_lock eventually leaves the call with the mutex.
C15_StaticInitializer ==
    /\ [](\A t \in Threads :
             At("mutex_lock_sched") /\ cpu = t /\ tcb[t].state = "BLOCKED"
                 => mutex.waiters # NullQ /\ tcb[t].blocked_queue = mutex.waiters)
    /\ \A t \in Threads : InLock(t) ~> ~InLock(t)

(***************************************************************************)
(* Timed waits.                                                            *)
(***************************************************************************)
\* thread t is inside uthread_cond_timedwait or uthread_sem_timedwait
InTimedWait(t) ==
    \E i \in 1..Len(stk[t]) :
        stk[t][i].l \in {"cond_timed_check", "cond_timed_resume", "cond_reacq_sched",
                         "cond_reacq_resume", "sem_timed_resume"}

\* C16: timed waits time out.  A thread inside uthread_cond_timedwait or
\* uthread_sem_timedwait that nobody signals or posts eventually returns
\* timed out, whether the deadline passed before it blocked or after, while
\* another thread keeps running and the mutex is free.  (Runs in which the
\* process faults while switching threads are not held against the wait.)
C16_TimedWaitTimesOut ==
    \A t \in Workers :
        InTimedWait(t) ~> ((~InTimedWait(t) /\ rc[t] = "ETIMEDOUT") \/ crashed)

\* thread t is linked in the wait queue of the condition variable or of the
\* semaphore
OnTimedQueue(s, t) ==
    \/ s.tcb[t].blocked_queue \in {CondQ, SemQ}
    \/ Occurrences(s, s.wq[CondQ].head, t, 2 * MaxThreads) > 0
    \/ Occurrences(s, s.wq[SemQ].head, t, 2 * MaxThreads) > 0

\* C17: timed out implies unlinked.  In the step in which
\* uthread_cond_timedwait or uthread_sem_timedwait returns timed out to
\* thread t, t's blocked_queue is null and neither wait queue contains t.
C17_TimedOutUnlinked ==
    [][\A t \in Workers :
           rc[t] # "ETIMEDOUT" /\ rc'[t] = "ETIMEDOUT"
               => tcb'[t].blocked_queue = NullQ /\ ~OnTimedQueue(St', t)]_vars

(***************************************************************************)
(* Sleep.                                                                  *)
(***************************************************************************)
\* thread t is inside uthread_sleep: called, not yet returned
InSleep(t) == \E i \in 1..Len(stk[t]) : stk[t][i].l = "sleep_loop"

\* C18: uthread_sleep terminates.  Every call of uthread_sleep with ms > 0
\* returns once the clock has reached the target, whatever the other threads
\* do, also when the caller is the only runnable thread.
C18_SleepTerminates ==
    \A t \in Threads : InSleep(t) ~> ~InSleep(t)

(***************************************************************************)
(* Scheduling policies.                                                    *)
(***************************************************************************)
\* the threads created by main
Created == {t \in Workers : \E i \in 1..Len(prog[Main]) : prog[Main][i] = Op("create", t)}

\* a yield with other threads ready dispatches the head of the run queue and
\* puts the caller at its tail, behind the threads that were ready
YieldRotates ==
    AtUser("yield") /\ rq.head # NULL =>
        LET s == uthread_yield(Call)
        IN  /\ s.current = rq.head
            /\ ListFrom(s, s.rq.head, 2 * MaxThreads)
                   = Tail(ListFrom(St, rq.head, 2 * MaxThreads)) \o <<current>>

\* C19: round-robin fairness.  The threads that loop Rounds times over one
\* step and one yield are dispatched in FIFO rotation, each has executed
\* exactly Rounds iterations when it has exited, and all of them terminate
\* and are joined by main.
C19_RoundRobinFairness ==
    /\ []YieldRotates
    /\ [](\A t \in Created : tcb[t].exited => tmp[t] = Rounds)
    /\ <>(Finished /\ \A t \in Created : obs.joinret[t] # NULL)

\* the threads linked on the priority run queues
OnPriorityQueue(t) ==
    \E i \in Levels : rr_found(St, rq.queues[i], t, MaxThreads + 1) = "yes"

(***************************************************************************)
(* C20.  Priority strictness: under the priority policy, in every state in *)
(* which a user thread of priority p is RUNNING, no READY thread of        *)
(* priority strictly greater than p is on the run queues, the states right *)
(* after uthread_create or an unblock made such a thread READY included.   *)
(***************************************************************************)
C20_PriorityStrictness ==
    rq.ops = "priority" /\ ~crashed =>
        \A t \in Threads :
            tcb[t].mem = "live" /\ tcb[t].state = "RUNNING" =>
                \A u \in Threads :
                    /\ tcb[u].mem = "live"
                    /\ tcb[u].state = "READY"
                    /\ OnPriorityQueue(u)
                    => tcb[u].priority <= tcb[t].priority

(***************************************************************************)
(* Priority order of first runs (test_priority_basic).                     *)
(***************************************************************************)
\* the priority main gives thread t in its attribute
AttrPriority(t) == prog[Main][t - 1].x[2]

\* thread t has been created and has entered its start routine
Started(s, t) ==
    /\ s.tcb[t].mem # "none"
    /\ s.stk[t] # <<>> => s.stk[t][Len(s.stk[t])].l # "entry"

\* this step is the first run of t
FirstRun(t) == tcb[t].mem = "live" /\ ~Started(St, t) /\ Started(St', t)

\* after a dispatch no queued READY thread outranks the thread dispatched
DispatchHighest ==
    [][current' # current /\ ~crashed' /\ current' # Idle =>
          \A u \in Threads :
              /\ tcb'[u].state = "READY"
              /\ \E i \in Levels :
                     rr_found(St', rq'.queues[i], u, MaxThreads + 1) = "yes"
              => tcb'[u].priority <= tcb'[current'].priority]_vars

\* threads already created run for the first time by priority, and in the
\* order of creation among equal priorities
FirstRunAmongCreated ==
    [][\A t \in Workers : FirstRun(t) /\ ~crashed' =>
          \A u \in Workers \ {t} :
              /\ tcb[u].mem # "none"
              /\ \/ AttrPriority(u) > AttrPriority(t)
                 \/ AttrPriority(u) = AttrPriority(t) /\ u < t
              => Started(St, u)]_vars

\* every thread of higher priority, created yet or not, has run before
FirstRunByPriority ==
    [][\A t \in Workers : FirstRun(t) /\ ~crashed' =>
          \A u \in Workers \ {t} :
              AttrPriority(u) > AttrPriority(t) => Started(St, u)]_vars

Exited(t) == stk[t] # <<>> /\ stk[t][Len(stk[t])].l = "exit_unreachable"

\* how often t occurs on the wait queues
OnWaitQueues(s, t) ==
    Cardinality({q \in Queues :
                    Occurrences(s, s.wq[q].head, t, 2 * MaxThreads) > 0})

(***************************************************************************)
(* C22.  uthread_exit never returns: a thread that called uthread_exit, or *)
(* whose start routine returned into the trampoline, is never dispatched   *)
(* again; it is in no run queue and no wait queue, its state stays         *)
(* TERMINATED, and no statement after the exit call executes.              *)
(***************************************************************************)
C22_ExitNeverReturns ==
    \A t \in Workers :
        Exited(t) /\ ~crashed =>
            /\ cpu # t /\ current # t
            /\ tcb[t].mem = "live" => /\ tcb[t].state = "TERMINATED"
                                      /\ tcb[t].exited
            /\ OnRunQueue(St, t) = 0
            /\ OnWaitQueues(St, t) = 0

(***************************************************************************)
(* C23.  Producer/consumer: producers and consumers sharing a bounded      *)
(* buffer guarded by one mutex and two condition variables always all      *)
(* terminate; the buffer count stays within 0..BUFFER_SIZE at every step,  *)
(* and at the end items_produced = items_consumed = the total and the      *)
(* buffer is empty.                                                        *)
(***************************************************************************)
BufferInBounds == buf.buffer_count \in 0..BUFFER_SIZE

BufferTotals ==
    Finished => /\ buf.items_produced = NUM_PRODUCERS * ITEMS_PER_PRODUCER
                /\ buf.items_consumed = NUM_PRODUCERS * ITEMS_PER_PRODUCER
                /\ buf.buffer_count = 0

C23_ProducerConsumer == []BufferInBounds /\ []BufferTotals /\ <>Finished

(***************************************************************************)
(* Error returns of uthread_join.                                          *)
(***************************************************************************)
\* this step is the call of uthread_join the running thread is at
JoinCall ==
    /\ AtUser("join")
    /\ \/ crashed' /\ stk'[cpu] = stk[cpu]
       \/ /\ stk'[cpu] # stk[cpu]
          /\ stk'[cpu][Len(stk'[cpu])].l # "handler_ret"

\* the call returned code without blocking and left both threads as they were
JoinRefused(self, t, code) ==
    /\ ~crashed'
    /\ rc'[cpu] = code
    /\ cpu' = cpu /\ current' = self
    /\ tcb'[self].state = tcb[self].state
    /\ tcb'[self].joiner = tcb[self].joiner
    /\ tcb'[self].waiting_on = tcb[self].waiting_on
    /\ tcb'[t].state = tcb[t].state
    /\ tcb'[t].joiner = tcb[t].joiner
    /\ tcb'[t].waiting_on = tcb[t].waiting_on

JoinSelf == [][JoinCall /\ Arg = current => JoinRefused(current, Arg, "EDEADLK")]_vars

JoinDetached ==
    [][JoinCall /\ Arg # current /\ tcb[Arg].detached
       => JoinRefused(current, Arg, "EINVAL")]_vars

JoinJoined ==
    [][/\ JoinCall /\ Arg # current /\ ~tcb[Arg].detached
       /\ tcb[Arg].mem = "live" /\ tcb[Arg].joiner \notin {NULL, current}
       => JoinRefused(current, Arg, "EINVAL")]_vars

(***************************************************************************)
(* C24.  uthread_join returns would-deadlock when the target is the        *)
(* calling thread and invalid when the target is detached or already has a *)
(* different joiner; in each error case the caller does not block and      *)
(* neither thread's state, joiner or waiting_on field changes.             *)
(***************************************************************************)
C24_JoinErrors == JoinSelf /\ JoinDetached /\ JoinJoined

(***************************************************************************)
(* Error returns of an ERRORCHECK mutex.                                   *)
(***************************************************************************)
\* this step is the call of operation o the running thread is at
MutexCall(o) ==
    /\ AtUser(o)
    /\ mutex.type = "ERRORCHECK"
    /\ stk'[cpu] # stk[cpu]
    /\ stk'[cpu][Len(stk'[cpu])].l # "handler_ret"

\* the call returned code at once and left the mutex, its wait queue, the
\* run queue and every thread as they were
MutexRefused(code) ==
    /\ ~crashed'
    /\ rc'[cpu] = code
    /\ cpu' = cpu /\ current' = current
    /\ stk'[cpu] = [stk[cpu] EXCEPT ![Len(stk[cpu])].a = @ + 1]
    /\ mutex' = mutex
    /\ wq' = wq /\ rq' = rq /\ tcb' = tcb

RelockRefused ==
    [][MutexCall("lock") /\ mutex.owner = current => MutexRefused("EDEADLK")]_vars

UnownedUnlockRefused ==
    [][MutexCall("unlock") /\ mutex.owner # current => MutexRefused("EPERM")]_vars

(***************************************************************************)
(* C25.  For an ERRORCHECK mutex, lock by the current owner returns        *)
(* would-deadlock without blocking, and unlock by any thread that is not   *)
(* the owner (including when the mutex is not locked at all) returns       *)
(* not-permitted; both error returns leave lock, owner, recursion_count    *)
(* and the wait queue unchanged.                                           *)
(***************************************************************************)
C25_ErrorCheck == RelockRefused /\ UnownedUnlockRefused

\* the owner was refused a second lock and still holds the mutex, and
\* another thread was refused an unlock
C25_Witness ==
    /\ mutex.type = "ERRORCHECK"
    /\ mutex.lock = 1 /\ mutex.owner = 2 /\ rc[2] = "EDEADLK"
    /\ rc[3] = "EPERM"

(***************************************************************************)
(* Failure of uthread_create.                                              *)
(***************************************************************************)
\* this step is the call of uthread_create the running thread is at
CreateCall ==
    /\ AtUser("create")
    /\ \/ crashed'
       \/ /\ stk'[cpu] # stk[cpu]
          /\ stk'[cpu][Len(stk'[cpu])].l # "handler_ret"

Registered == Cardinality(g_scheduler.all_threads) + g_scheduler.others

CreateSucceeded ==
    /\ ~crashed'
    /\ rc'[cpu] = "SUCCESS"
    /\ Arg \in obs'.handle
    /\ g_scheduler'.all_threads = g_scheduler.all_threads \cup {Arg}
    /\ g_scheduler'.thread_count = g_scheduler.thread_count + 1

\* the call returned an error code and left the handle, the registry, the
\* run queue and the live-thread count as they were
CreateRefused ==
    /\ ~crashed'
    /\ rc'[cpu] \in {"ENOMEM", "EAGAIN", "EINVAL"}
    /\ obs'.handle = obs.handle
    /\ g_scheduler'.all_threads = g_scheduler.all_threads
    /\ g_scheduler'.thread_count = g_scheduler.thread_count
    /\ rq' = rq

CreateFallible ==
    [][CreateCall => IF Registered < UTHREAD_MAX_THREADS
                     THEN CreateSucceeded \/ CreateRefused
                     ELSE CreateRefused]_vars

RegistryBounded ==
    /\ Registered <= UTHREAD_MAX_THREADS
    /\ g_scheduler.thread_count = Registered

(***************************************************************************)
(* C26.  uthread_create is fallible by return value only: whenever it      *)
(* cannot complete (allocation failure, or the registry already holds the  *)
(* maximum of 1024 live threads) it returns an error code, does not abort, *)
(* does not write the output handle, and leaves the registry, the run      *)
(* queue and the live-thread count unchanged; the number of registered     *)
(* live threads never exceeds 1024.                                        *)
(***************************************************************************)
C26_CreateFallible == CreateFallible /\ []RegistryBounded

(***************************************************************************)
(* Library initialisation and shutdown.                                    *)
(***************************************************************************)
\* this step is the call of operation o the running thread is at
LibCall(o) ==
    /\ AtUser(o)
    /\ stk'[cpu] # stk[cpu]
    /\ stk'[cpu][Len(stk'[cpu])].l # "handler_ret"

RunQueueEmpty ==
    /\ rq.head = NULL /\ rq.tail = NULL /\ rq.count = 0
    /\ \A i \in Levels : rq.queues[i] = NULL
    /\ rq.bitmap = {} /\ rq.pcount = 0

\* the state uthread_init(policy) sets up
FreshState(policy) ==
    /\ g_scheduler.initialized
    /\ rq.ops = policy /\ RunQueueEmpty
    /\ current = cpu
    /\ tcb[current].tid = 1 /\ tcb[current].state = "RUNNING"
    /\ tcb[current].mem = "live"
    /\ g_scheduler.all_threads = {current} /\ g_scheduler.thread_count = 1
    /\ s_preemption_disabled = 0 /\ ~s_preempt_pending /\ ~in_scheduler

InitRefused ==
    [][LibCall("init") /\ g_scheduler.initialized
       => /\ rc'[cpu] = "EINVAL" /\ ~crashed'
          /\ <<tcb, ctx, rq, wq, current, in_scheduler, s_preemption_disabled,
               s_preempt_pending, cpu, mask, g_scheduler>>'
             = <<tcb, ctx, rq, wq, current, in_scheduler, s_preemption_disabled,
                 s_preempt_pending, cpu, mask, g_scheduler>>]_vars

ShutdownClears ==
    [][LibCall("shutdown") => ~g_scheduler'.initialized /\ ~crashed']_vars

InitFresh ==
    [][LibCall("init") /\ ~g_scheduler.initialized
       => /\ rc'[cpu] = "SUCCESS" /\ ~crashed'
          /\ \E p \in Policies : p = Arg /\ FreshState(p)']_vars

Live(t) == tcb[t].mem = "live" /\ ~tcb[t].exited

\* t is at most once on the run queue or on one wait queue, never on both
OnOneQueue(t) ==
    /\ OnRunQueue(St, t) <= 1
    /\ \A q \in Queues : Occurrences(St, wq[q].head, t, 2 * MaxThreads) <= 1
    /\ OnWaitQueues(St, t) <= 1
    /\ OnRunQueue(St, t) > 0 => OnWaitQueues(St, t) = 0

(***************************************************************************)
(* C28.  In every reachable state each live TCB is in exactly one place:   *)
(* on the CPU as the single RUNNING thread, at exactly one position of the *)
(* run queue, or at exactly one position of one wait queue; no TCB is in a *)
(* run queue and a wait queue at the same time, none appears twice in a    *)
(* queue, and a BLOCKED thread is never in the run queue, under every      *)
(* interleaving of primitives and timer ticks.                             *)
(***************************************************************************)
C28_OnePlace ==
    ~crashed =>
        \A t \in Threads :
            Live(t) =>
                /\ OnOneQueue(t)
                /\ tcb[t].state = "BLOCKED" => OnRunQueue(St, t) = 0
                /\ tcb[t].state = "RUNNING"
                       => /\ t = current
                          /\ OnRunQueue(St, t) = 0 /\ OnWaitQueues(St, t) = 0

(***************************************************************************)
(* C29.  Whenever a user thread is executing outside scheduler_schedule,   *)
(* g_scheduler.current is that thread and its state is RUNNING, and no     *)
(* other TCB has state RUNNING; this holds after every return from yield,  *)
(* schedule, a blocking primitive or a timed wait.                         *)
(***************************************************************************)
C29_CurrentIsRunning ==
    ~crashed /\ Top.l = "user" =>
        /\ current = cpu
        /\ tcb[cpu].state = "RUNNING"
        /\ \A u \in Tcbs : u # cpu /\ tcb[u].mem = "live" => tcb[u].state # "RUNNING"

\* this step is a SIGALRM in which scheduler_tick takes the processor from
\* the current thread: it marks it READY and enqueues it
TickPreempts ==
    /\ stk'[cpu] = Append(stk[cpu], Fr("handler_ret", NULL, NULL))
    /\ current # NULL
    /\ tcb[current].state # "READY"
    /\ tcb'[current].state = "READY"

(***************************************************************************)
(* C30.  Critical-section discipline: every change of queue linkage and    *)
(* every call to scheduler_schedule made by a blocking primitive (mutex    *)
(* lock, cond wait/timedwait, sem wait/timedwait, rwlock rdlock/wrlock)    *)
(* happens where the timer cannot cause a reschedule, so scheduler_tick    *)
(* never preempts (marks READY and re-enqueues) a current thread whose     *)
(* state is BLOCKED or that is linked into a wait queue.                   *)
(***************************************************************************)
C30_TickDiscipline ==
    [][TickPreempts => /\ tcb[current].state # "BLOCKED"
                       /\ OnWaitQueues(St, current) = 0]_vars

(***************************************************************************)
(* C31.  The preemption depth counter is balanced across context switches: *)
(* whenever any thread is executing user code outside a library call the   *)
(* depth is 0 and the timer signal is unblocked, so preemption is never    *)
(* left disabled after a primitive returns, for every interleaving of      *)
(* create, yield, contended lock/wait, exit and join.                      *)
(***************************************************************************)
C31_DepthBalanced ==
    ~crashed /\ Top.l = "user" => s_preemption_disabled = 0 /\ ~mask

(***************************************************************************)
(* The timer signal handler and the deferred tick.                         *)
(***************************************************************************)
\* this step is a delivery of SIGALRM: the handler returned at once or
\* the interrupted thread was switched out inside it
SignalStep ==
    /\ ~At("pe_unblocked")
    /\ \/ stk'[cpu] = stk[cpu]
       \/ stk'[cpu] = Append(stk[cpu], Fr("handler_ret", NULL, NULL))

InCriticalSection == current # NULL /\ tcb[current].in_critical_section

\* the handler left the scheduler alone
NoTick ==
    /\ UNCHANGED <<tcb, ctx, rq, wq, current, cpu, in_scheduler,
                   s_preemption_disabled, stk, mask>>
    /\ ~crashed'

\* with the depth above 0 or inside a critical section the handler only
\* records the tick; inside the scheduler it does nothing
HandlerDefers ==
    [][SignalStep =>
         /\ s_preemption_disabled > 0 => NoTick /\ s_preempt_pending'
         /\ s_preemption_disabled = 0 /\ in_scheduler
                => NoTick /\ UNCHANGED s_preempt_pending
         /\ s_preemption_disabled = 0 /\ ~in_scheduler /\ InCriticalSection
                => NoTick /\ s_preempt_pending']_vars

\* a handler that reached scheduler_tick found the library initialized, the
\* depth 0, in_scheduler false and no critical section
HandlerTicks ==
    [][SignalStep /\ ~NoTick =>
         /\ g_scheduler.initialized
         /\ s_preemption_disabled = 0
         /\ ~in_scheduler
         /\ ~InCriticalSection]_vars

\* the recorded tick is taken, and the flag cleared, only by the rest of a
\* preemption_enable that brought the depth to 0
DeferredOnce ==
    [][s_preempt_pending /\ ~s_preempt_pending'
           => At("pe_unblocked") /\ g_scheduler.initialized]_vars

(***************************************************************************)
(* C32.  The timer signal handler calls scheduler_tick only when the       *)
(* library is initialized, the preemption depth is 0, in_scheduler is      *)
(* false and the current thread is not in a critical section; when the     *)
(* depth is > 0 or the thread is in a critical section it only sets        *)
(* preempt_pending, and the deferred tick is run at most once, by the      *)
(* preemption_enable call that brings the depth back to 0.                 *)
(***************************************************************************)
C32_HandlerGuards == HandlerDefers /\ HandlerTicks /\ DeferredOnce

\* a tick was recorded at depth above 0 and the preemption_enable that
\* brought the depth to 0 is about to take it
C32_Witness ==
    /\ At("pe_unblocked")
    /\ s_preempt_pending /\ s_preemption_disabled = 0 /\ ~in_scheduler

(***************************************************************************)
(* C33.  A context switch always saves the executing thread's machine      *)
(* context into that thread's own TCB: at every call                       *)
(* context_switch_to(from, to) the code executing is thread `from`, i.e.   *)
(* the timer never triggers a nested reschedule between scheduler_schedule *)
(* setting current = next (and clearing in_scheduler) and the swap, for    *)
(* every caller of scheduler_schedule.                                     *)
(***************************************************************************)
C33_SwitchSavesOwnContext ==
    /\ \A t \in Threads : ctx[t].live => ctx[t].stk = t
    /\ ~crashed /\ At("sched_switch") => Top.a = cpu

\* t is in use: it is the current thread, its stack is executing, it is on
\* the run queue or a wait queue, or it is the `from` side of a pending switch
InUse(t) ==
    \/ current = t
    \/ cpu = t
    \/ OnRunQueue(St, t) > 0
    \/ OnWaitQueues(St, t) > 0
    \/ At("sched_switch") /\ Top.a = t

(***************************************************************************)
(* C34.  No TCB or stack is freed while it is in use: a thread_free(t)     *)
(* happens only when t is not the current thread, is in no run queue or    *)
(* wait queue and is not the `from` side of a pending context switch; in   *)
(* particular for the exit of a detached thread and for uthread_detach on  *)
(* a thread that has exited.                                               *)
(***************************************************************************)
C34_FreedNotInUse ==
    [][\A t \in Threads :
           tcb[t].mem = "live" /\ tcb'[t].mem = "freed" => ~InUse(t)]_vars

\* t is linked in the semaphore's wait queue
OnSemQueue(t) == Occurrences(St, wq[SemQ].head, t, 2 * MaxThreads) > 0

(***************************************************************************)
(* C35.  A semaphore unit is never stranded: no thread stays linked in the *)
(* semaphore's wait queue forever while value > 0; a thread woken for the  *)
(* unit decrements the value or has another waiter woken, for every mix of *)
(* wait, timedwait, trywait and post.                                      *)
(***************************************************************************)
C35_NoStrandedUnit ==
    \A t \in Threads : []<>~(~crashed /\ sem.value > 0 /\ OnSemQueue(t))

(***************************************************************************)
(* C36.  For a recursive mutex, in every reachable state, owner # NULL     *)
(* exactly when recursion_count > 0 and exactly when lock = 1, including   *)
(* after uthread_cond_wait or uthread_cond_timedwait has released and      *)
(* reacquired the mutex.                                                   *)
(***************************************************************************)
C36_RecursiveCount ==
    mutex.type = "RECURSIVE" =>
        /\ mutex.owner # NULL <=> mutex.recursion_count > 0
        /\ mutex.owner # NULL <=> mutex.lock = 1

\* thread t is inside the loop of uthread_join (uthread.c:258-268)
InJoin(t) == \E i \in 1..Len(stk[t]) : stk[t][i].l = "join_resume"

\* the statement with "linked into some wait queue"
C37_WaitingOnQueued ==
    \A t \in Threads :
        tcb[t].mem = "live" =>
            (tcb[t].waiting_on # NULL
                 <=> tcb[t].state = "BLOCKED" /\ OnWaitQueues(St, t) > 0)

(***************************************************************************)
(* C37.  In every reachable state a TCB has waiting_on # NULL exactly when *)
(* it is BLOCKED in uthread_join on a thread that has not exited; it is    *)
(* then the joiner of that thread and is linked into no wait queue (the    *)
(* wait queues record their threads in blocked_queue).                     *)
(***************************************************************************)
C37_WaitingOnJoin ==
    \A t \in Threads :
        tcb[t].mem = "live" =>
            /\ tcb[t].waiting_on # NULL <=> InJoin(t) /\ tcb[t].state = "BLOCKED"
            /\ tcb[t].waiting_on # NULL
                   => /\ ~tcb[tcb[t].waiting_on].exited
                      /\ tcb[tcb[t].waiting_on].joiner = t
                      /\ OnWaitQueues(St, t) = 0

\* main is blocked in a join while a worker is blocked on the mutex
C37_Witness ==
    /\ ~crashed
    /\ tcb[Main].waiting_on # NULL /\ tcb[Main].state = "BLOCKED"
    /\ \E t \in Workers :
           /\ tcb[t].state = "BLOCKED" /\ tcb[t].blocked_queue = MutexQ
           /\ tcb[t].waiting_on = NULL

(***************************************************************************)
(* The mutex workers under the fair-share policy (uthread_init with        *)
(* UTHREAD_SCHED_CFS): each worker locks, increments the counter, unlocks  *)
(* and returns; main creates and joins them.                               *)
(***************************************************************************)
FairShareWorker ==
    <<Op("lock", 0), Op("read", 0), Op("write", 0), Op("unlock", 0),
      Op("return", 0)>>

InitFairShare ==
    /\ \E overflow \in {"wraps", "widens"} :
           InitBuild("cfs", MutexInitialised("NORMAL"), 0, overflow)
    /\ prog = [t \in Threads |-> IF t = Main THEN CreateAll \o JoinAll
                                 ELSE FairShareWorker]

NextFairShare ==
    \/ TimerSignal
    \/ HandlerReturn
    \/ SchedSwitch
    \/ EntryWrapper
    \/ OpCreate
    \/ OpJoin
    \/ JoinResume
    \/ OpExit
    \/ OpMutexLock
    \/ MutexLockSched
    \/ MutexLockResume
    \/ OpMutexUnlock
    \/ OpRead
    \/ OpWrite

SpecFairShare == InitFairShare /\ [][NextFairShare]_vars

(***************************************************************************)
(* The scheduling policies by themselves: the calls the scheduler makes    *)
(* through g_scheduler.ops (scheduler.c:183, 258, 275-285; uthread.c:217,  *)
(* 365), on TCBs that are running, queued or neither.                      *)
(***************************************************************************)
\* the nodes of the tree below n, from left to right
RECURSIVE RbInOrder(_, _, _)
RbInOrder(s, n, fuel) ==
    IF n = NULL \/ fuel = 0 THEN <<>>
    ELSE RbInOrder(s, s.tcb[n].rb_left, fuel - 1) \o <<n>>
         \o RbInOrder(s, s.tcb[n].rb_right, fuel - 1)

\* the lists of the priority levels from i downwards
RECURSIVE PrioritySeq(_, _)
PrioritySeq(s, i) ==
    IF i < 0 THEN <<>>
    ELSE ListFrom(s, s.rq.queues[i], 2 * MaxThreads) \o PrioritySeq(s, i - 1)

\* the queued threads in the order in which dequeue would return them, and
\* the policy's count of them
RunQueueSeq(s) ==
    IF s.rq.ops = "cfs" THEN RbInOrder(s, s.rq.rb_root, MaxNodes + 1)
    ELSE IF s.rq.ops = "priority" THEN PrioritySeq(s, UTHREAD_PRIORITY_LEVELS - 1)
    ELSE ListFrom(s, s.rq.head, 2 * MaxThreads)

RunQueueCount(s) ==
    IF s.rq.ops = "cfs" THEN s.rq.cfs_count
    ELSE IF s.rq.ops = "priority" THEN s.rq.pcount
    ELSE s.rq.count

Queued(s, t) == \E i \in 1..Len(RunQueueSeq(s)) : RunQueueSeq(s)[i] = t

InitRunQueue ==
    /\ \E policy \in {"rr", "priority", "cfs"}, overflow \in {"wraps", "widens"} :
           /\ policy # "cfs" => overflow = "wraps"
           /\ \E pr \in [Threads -> {UTHREAD_PRIORITY_DEFAULT, 20}] :
                  /\ policy # "priority"
                         => \A t \in Threads : pr[t] = UTHREAD_PRIORITY_DEFAULT
                  /\ tcb = [t \in Threads |->
                              [thread_alloc EXCEPT
                                  !.tid = t,
                                  !.state = IF t = Main THEN "RUNNING" ELSE "BLOCKED",
                                  !.priority = pr[t],
                                  !.timeslice_remaining =
                                      IF policy = "cfs" THEN U64(0) ELSE 0]]
           /\ InitRest(policy, MutexInitialised("NORMAL"), 0, overflow)
    /\ prog = [t \in Threads |-> <<>>]

\* scheduler_unblock, or the enqueue of uthread_create (uthread.c:217)
RqUnblock ==
    \E t \in DOMAIN tcb :
        /\ ~crashed /\ t # current /\ ~Queued(St, t)
        /\ Commit(scheduler_unblock(St, t))

\* ops->remove (uthread.c:365), for any thread
RqRemove == ~crashed /\ \E t \in DOMAIN tcb : Commit(ops_remove(St, t))

\* the running thread blocks and scheduler_schedule takes the next one
\* (scheduler.c:183-202), without the context switch
RqSchedule ==
    LET next == ops_head(St)
        s1 == ops_dequeue(IF current = NULL THEN St
                          ELSE [St EXCEPT !.tcb[current].state = "BLOCKED"])
    IN  /\ ~crashed
        /\ current # NULL \/ next # NULL
        /\ Commit(IF next = NULL THEN [s1 EXCEPT !.current = NULL]
                  ELSE [s1 EXCEPT !.current = next, !.tcb[next].state = "RUNNING"])

\* scheduler_tick (scheduler.c:261-288), without the context switch
RqTick ==
    /\ ~crashed /\ current # NULL
    /\ TickBounded
    /\ \E e \in TickElapsed :
           LET s1 == ops_on_tick(St, current, e)
               s2 == ops_enqueue([s1 EXCEPT !.tcb[current].state = "READY"], current)
               next == ops_head(s2)
           IN  Commit(IF ~ops_should_preempt(s1, current) THEN s1
                      ELSE IF s2.crashed \/ next = NULL THEN s2
                      ELSE [ops_dequeue(s2) EXCEPT !.current = next,
                                                   !.tcb[next].state = "RUNNING"])

NextRunQueue == RqUnblock \/ RqRemove \/ RqSchedule \/ RqTick

SpecRunQueue == InitRunQueue /\ [][NextRunQueue]_vars

\* the subtree below n: its black height, or -1 when it breaks a rule of
\* red-black trees (a red node with a red child, paths with different
\* numbers of black nodes, a child whose rb_parent is not its parent)
RECURSIVE RbBlackHeight(_, _, _, _)
RbBlackHeight(s, n, parent, fuel) ==
    IF n = NULL THEN 0
    ELSE IF fuel = 0 \/ s.tcb[n].rb_parent # parent THEN -1
    ELSE LET l == RbBlackHeight(s, s.tcb[n].rb_left, n, fuel - 1)
             r == RbBlackHeight(s, s.tcb[n].rb_right, n, fuel - 1)
         IN  IF l < 0 \/ r < 0 \/ l # r THEN -1
             ELSE IF s.tcb[n].rb_color = RB_RED
             THEN IF IsRed(s, s.tcb[n].rb_left) \/ IsRed(s, s.tcb[n].rb_right)
                  THEN -1 ELSE l
             ELSE l + 1

\* the tree is a red-black tree in order of vruntime, each node once, with
\* count nodes and the cached leftmost node its first
RbValid(s) ==
    LET seq == RbInOrder(s, s.rq.rb_root, MaxNodes + 1) IN
    /\ IsBlack(s, s.rq.rb_root)
    /\ RbBlackHeight(s, s.rq.rb_root, NULL, MaxNodes + 1) >= 0
    /\ \A i, j \in 1..Len(seq) :
           i < j => seq[i] # seq[j]
                    /\ ~U64Lt(s.tcb[seq[j]].vruntime, s.tcb[seq[i]].vruntime)
    /\ s.rq.cfs_count = Len(seq)
    /\ s.rq.rb_leftmost = (IF seq = <<>> THEN NULL ELSE seq[1])

\* what cfs_dequeue returns has the least vruntime in the tree
DequeueMinimal(s) ==
    \A t \in DOMAIN s.tcb :
        Queued(s, t) => ~U64Lt(s.tcb[t].vruntime, s.tcb[ops_head(s)].vruntime)

\* the tree of the policy by itself
RbTreeValid == rq.ops = "cfs" => RbValid(St) /\ DequeueMinimal(St)

\* remove(t) takes exactly t out of the run queue, and nothing when t is
\* not queued
RemoveExact(s, t) ==
    LET r == ops_remove(s, t) IN
    IF Queued(s, t)
    THEN /\ ~r.crashed
         /\ RunQueueSeq(r) = Without(RunQueueSeq(s), t)
         /\ RunQueueCount(r) = RunQueueCount(s) - 1
    ELSE r = s

(***************************************************************************)
(* C40.  For each of the three policies, remove(t) on a queued thread      *)
(* takes exactly t out of the run queue: the count goes down by one and    *)
(* the order of the others is kept, under CFS also when several queued     *)
(* threads have the same vruntime; remove(t) on a thread that is not       *)
(* queued changes nothing.                                                 *)
(***************************************************************************)
C40_RemoveExact == \A t \in DOMAIN tcb : RemoveExact(St, t)

\* what should_preempt is to return for the running thread: its slice is
\* used up and another thread is queued, or the leftmost thread's vruntime
\* is below its own by more than CFS_MIN_GRANULARITY_NS (as numbers, not
\* modulo 2^64)
PreemptDue(s, cur) ==
    \/ s.tcb[cur].timeslice_remaining = U64(0) /\ s.rq.cfs_count > 0
    \/ /\ s.rq.rb_leftmost # NULL
       /\ U64Lt(s.tcb[s.rq.rb_leftmost].vruntime, s.tcb[cur].vruntime)
       /\ U64Lt(U64(CFS_MIN_GRANULARITY_NS),
                U64Sub(s.tcb[cur].vruntime, s.tcb[s.rq.rb_leftmost].vruntime))

(***************************************************************************)
(* C39.  Under the fair-share policy should_preempt(current) is true       *)
(* exactly when current's time slice is used up and another thread is      *)
(* queued, or the leftmost queued thread's vruntime is smaller than        *)
(* current's by more than 1 ms; it is false when time slice remains and    *)
(* the leftmost vruntime is greater than or equal to current's.            *)
(***************************************************************************)
C39_ShouldPreempt ==
    rq.ops = "cfs" /\ current # NULL
        => (cfs_should_preempt(St, current) <=> PreemptDue(St, current))

(***************************************************************************)
(* C38.  Under the fair-share policy the run queue is always a valid       *)
(* red-black search tree keyed by vruntime (root black, no red node with a *)
(* red child, equal black height on all paths) whose cached leftmost       *)
(* pointer is a node of minimum vruntime, null exactly when the tree is    *)
(* empty, so dequeue returns a queued thread of minimal vruntime.          *)
(***************************************************************************)
C38_RbTree == rq.ops = "cfs" => RbValid(St) /\ DequeueMinimal(St)

====
